---- MODULE Spec2Model ----
(***************************************************************************)
(* Model of the AI Prompt Manager content script: the variable template    *)
(* resolver, the page classifier, and the injection flow (insertion        *)
(* cascade followed by the send cascade) of src/src/content/js/content.js, *)
(* its trigger button and side menu, and the prompt stores it shares with  *)
(* the popup and the background script.                                    *)
(*                                                                         *)
(* A text is a sequence of one-character strings.                          *)
(***************************************************************************)
EXTENDS Integers, Sequences, FiniteSets, TLC

VARIABLES
  rs,         \* the resolver on its own (specification SpecResolve)
  cl,         \* the page classifier on its own (specification SpecClassify)
  lc,         \* the input locator and who is handed its result (SpecLocate)
  rq,         \* the injection requests of the page, one record each
  overlay,    \* the requests whose variable modal overlay is attached
  el,         \* the element findAIInput returns: kind, value, text, caret
  clipboard,  \* the system clipboard
  timers,     \* the pending setTimeout callbacks, the next to fire first
  ui,         \* the trigger button and the side menu (specification SpecUi)
  ps          \* the prompt stores and who holds a copy (SpecStore, SpecMigrate)

vars == <<rs, cl, lc, rq, overlay, el, clipboard, timers, ui, ps>>

\* The variables of the injection flow (specification Spec).
flow == <<rq, overlay, el, clipboard, timers>>

\* The variables the resolver specification leaves alone.
notRs == <<cl, lc, rq, overlay, el, clipboard, timers, ui, ps>>

\* The variables the classifier specification leaves alone.
notCl == <<rs, lc, rq, overlay, el, clipboard, timers, ui, ps>>

\* The variables the injection flow leaves alone.
notFlow == <<rs, cl, lc, ui, ps>>

\* The variables the locator specification leaves alone.
notLc == <<rs, cl, rq, overlay, el, clipboard, timers, ui, ps>>

\* The variables the button and menu specification leaves alone.
notUi == <<rs, cl, lc, rq, overlay, el, clipboard, timers, ps>>

\* The variables the store specifications leave alone.
notPs == <<rs, cl, lc, rq, overlay, el, clipboard, timers, ui>>

(***************************************************************************)
(* Bounds of the model.                                                    *)
(***************************************************************************)
\* Longest template of the resolver specification, in segments.
MaxSegs == 3
\* Longest host name of the classifier specification, in chunks.
MaxHostChunks == 2
\* Number of injection requests made on the page.
NumReq == 2
MaxDom == 2
MaxRenders == 2
\* Most transitionend listeners left on one side menu element.
MaxHandlers == 2

(***************************************************************************)
(* Text helpers.                                                           *)
(***************************************************************************)
SeqToSet(s) == {s[i] : i \in 1..Len(s)}

InSeq(x, s) == \E i \in 1..Len(s) : s[i] = x

\* The text from position i to the end.
Tail_(text, i) == SubSeq(text, i, Len(text))

\* Whether `pat` occurs in `text` at position i.
OccursAt(text, pat, i) ==
  /\ i >= 1
  /\ i + Len(pat) - 1 <= Len(text)
  /\ SubSeq(text, i, i + Len(pat) - 1) = pat

\* String.prototype.includes
Includes(text, pat) == \E i \in 1..(Len(text) + 1) : OccursAt(text, pat, i)

(***************************************************************************)
(* insertPromptText, step 1: the scan for {variable} tokens with           *)
(*   /\{([^{}\n]+)\}/g   and a Set of the names whose trim() is non-empty. *)
(***************************************************************************)
\* The class without the newline: [^{}].
NameChar_NoNewline(c) == c \notin {"{", "}"}

\* The character class [^{}\n].
NameChar(c) == c \notin {"{", "}", "\n"}

\* The white space String.prototype.trim removes (of the model's alphabet).
WhiteSpace == {" ", "\t", "\n"}

\* match[1].trim() is the empty string.
IsBlank(name) == \A i \in 1..Len(name) : name[i] \in WhiteSpace

\* The greedy run [^{}\n]+ from position k: the first position past it.
RECURSIVE RunEnd(_, _)
RunEnd(text, k) ==
  IF k > Len(text) \/ ~NameChar(text[k]) THEN k ELSE RunEnd(text, k + 1)

\* The regular expression matched at position i: the position of the closing
\* brace, or 0 when it does not match there.
MatchAt(text, i) ==
  IF i <= Len(text) /\ text[i] = "{"
  THEN LET k == RunEnd(text, i + 1)
       IN  IF k > i + 1 /\ k <= Len(text) /\ text[k] = "}" THEN k ELSE 0
  ELSE 0

\* variableRegex.exec(text) with lastIndex = i - 1: <<start, end>> of the
\* leftmost match at or after position i, <<0, 0>> for null.
RECURSIVE RegexExec(_, _)
RegexExec(text, i) ==
  IF i > Len(text) THEN <<0, 0>>
  ELSE IF MatchAt(text, i) > 0 THEN <<i, MatchAt(text, i)>>
  ELSE RegexExec(text, i + 1)

\* The filter of the scan loop: the names that are kept.
KeepsName_EmptyObject(name) == TRUE

KeepsName(name) == ~IsBlank(name)

\* The while loop: variables.add(match[1]) in order of first occurrence.
RECURSIVE ScanLoop(_, _, _)
ScanLoop(text, i, found) ==
  LET m == RegexExec(text, i)
  IN  IF m[1] = 0 THEN found
      ELSE LET name == SubSeq(text, m[1] + 1, m[2] - 1)
           IN  ScanLoop(text, m[2] + 1,
                        IF KeepsName(name) /\ ~InSeq(name, found)
                        THEN Append(found, name) ELSE found)

\* The names of all matches, a repeated name repeated (an array, not a Set).
RECURSIVE ScanLoop_NoDedup(_, _, _)
ScanLoop_NoDedup(text, i, found) ==
  LET m == RegexExec(text, i)
  IN  IF m[1] = 0 THEN found
      ELSE LET name == SubSeq(text, m[1] + 1, m[2] - 1)
           IN  ScanLoop_NoDedup(text, m[2] + 1,
                                IF KeepsName(name) THEN Append(found, name) ELSE found)

ScanVariables_NoDedup(text) == ScanLoop_NoDedup(text, 1, <<>>)

\* Array.from(variables)
ScanVariables(text) == ScanLoop(text, 1, <<>>)

(***************************************************************************)
(* Object.entries: the keys that are array indices come first, in          *)
(* ascending numeric order, then the other keys in insertion order.        *)
(***************************************************************************)
DigitVal ==
  ("0" :> 0) @@ ("1" :> 1) @@ ("2" :> 2) @@ ("3" :> 3) @@ ("4" :> 4) @@
  ("5" :> 5) @@ ("6" :> 6) @@ ("7" :> 7) @@ ("8" :> 8) @@ ("9" :> 9)

RECURSIVE NumVal(_)
NumVal(name) ==
  IF name = <<>> THEN 0
  ELSE 10 * NumVal(SubSeq(name, 1, Len(name) - 1)) + DigitVal[name[Len(name)]]

IsArrayIndex(name) ==
  /\ Len(name) >= 1
  /\ Len(name) <= 9
  /\ \A i \in 1..Len(name) : name[i] \in DOMAIN DigitVal
  /\ (Len(name) = 1 \/ name[1] # "0")

RECURSIVE SortIndexKeys(_)
SortIndexKeys(S) ==
  IF S = {} THEN <<>>
  ELSE LET least == CHOOSE k \in S : \A o \in S : NumVal(k) <= NumVal(o)
       IN  <<least>> \o SortIndexKeys(S \ {least})

ObjectEntriesOrder(keys) ==
  SortIndexKeys({k \in SeqToSet(keys) : IsArrayIndex(k)})
    \o SelectSeq(keys, LAMBDA k : ~IsArrayIndex(k))

(***************************************************************************)
(* insertPromptText, the replacement loop:                                 *)
(*   textToInsert = textToInsert.replace(new RegExp(`\\{${safeKey}\\}`,    *)
(*                                                   'g'), value)          *)
(* safeKey escapes every regular expression metacharacter, so the pattern  *)
(* matches the literal token; `value` is a replacement string, in which    *)
(* $$, $&, $` and $' are replacement patterns.                             *)
(***************************************************************************)
Token(key) == <<"{">> \o key \o <<"}">>

\* GetSubstitution: the replacement string expanded for the match that
\* covers positions s..e of text.
RECURSIVE GetSubstitution(_, _, _, _, _)
GetSubstitution(value, i, text, s, e) ==
  IF i > Len(value) THEN <<>>
  ELSE IF value[i] = "$" /\ i < Len(value) /\ value[i + 1] = "$"
    THEN <<"$">> \o GetSubstitution(value, i + 2, text, s, e)
  ELSE IF value[i] = "$" /\ i < Len(value) /\ value[i + 1] = "&"
    THEN SubSeq(text, s, e) \o GetSubstitution(value, i + 2, text, s, e)
  ELSE IF value[i] = "$" /\ i < Len(value) /\ value[i + 1] = "`"
    THEN SubSeq(text, 1, s - 1) \o GetSubstitution(value, i + 2, text, s, e)
  ELSE IF value[i] = "$" /\ i < Len(value) /\ value[i + 1] = "'"
    THEN Tail_(text, e + 1) \o GetSubstitution(value, i + 2, text, s, e)
  ELSE <<value[i]>> \o GetSubstitution(value, i + 1, text, s, e)

\* The replacement that keeps the literal token when the field is empty.
ReplacementFor_KeepEmpty(value, text, s, e) ==
  IF value = <<>> THEN SubSeq(text, s, e)
  ELSE GetSubstitution(value, 1, text, s, e)

ReplacementFor(value, text, s, e) == GetSubstitution(value, 1, text, s, e)

\* String.prototype.replace with a global literal pattern: the leftmost
\* non-overlapping occurrences, each replaced by the expanded value.
RECURSIVE ReplaceFrom(_, _, _, _)
ReplaceFrom(text, pat, value, i) ==
  IF i > Len(text) THEN <<>>
  ELSE IF OccursAt(text, pat, i)
    THEN ReplacementFor(value, text, i, i + Len(pat) - 1)
           \o ReplaceFrom(text, pat, value, i + Len(pat))
  ELSE <<text[i]>> \o ReplaceFrom(text, pat, value, i + 1)

\* The replacement that stops after the first occurrence (no 'g' flag).
StringReplace_First(text, pat, value) ==
  IF ~Includes(text, pat) THEN text
  ELSE LET i == CHOOSE k \in 1..Len(text) :
                  OccursAt(text, pat, k) /\ \A j \in 1..(k - 1) : ~OccursAt(text, pat, j)
       IN  SubSeq(text, 1, i - 1)
             \o ReplacementFor(value, text, i, i + Len(pat) - 1)
             \o Tail_(text, i + Len(pat))

StringReplace(text, pat, value) == ReplaceFrom(text, pat, value, 1)

\* for (const [key, value] of Object.entries(filledVariables)) ...
\* The texts after each iteration, the text before the loop first.
RECURSIVE ReplaceLoop(_, _, _)
ReplaceLoop(text, keys, values) ==
  IF keys = <<>> THEN <<text>>
  ELSE <<text>> \o ReplaceLoop(StringReplace(text, Token(Head(keys)), values[Head(keys)]),
                               Tail(keys), values)

\* The sequence of texts of the replacement loop for the values the modal
\* resolved with. submitBtn.onclick fills `values` in the order of
\* Object.entries(inputs), and the loop runs in the order of
\* Object.entries(values).
ReplaceTrace(text, fields, values) ==
  ReplaceLoop(text, ObjectEntriesOrder(ObjectEntriesOrder(fields)), values)

ReplaceVariables(text, fields, values) ==
  LET t == ReplaceTrace(text, fields, values) IN t[Len(t)]

(***************************************************************************)
(* The injection flow: a click on a prompt's insert or send button, or an  *)
(* insertPrompt message, runs insertPromptText (variable modal, then       *)
(* _performInsertion) and, for the send button, sendPrompt after the       *)
(* insertion promise has resolved.                                         *)
(*                                                                         *)
(* The page runs one task at a time. An action of the model is one task    *)
(* together with the promise reactions it triggers: a click, a button of   *)
(* the modal, the settling of navigator.clipboard.writeText, a timer.      *)
(* What the page and the browser answer (is there a clipboard API, does    *)
(* execCommand act, does the host page handle an event) is chosen when it  *)
(* is read.                                                                *)
(***************************************************************************)
Min(a, b) == IF a <= b THEN a ELSE b

\* The templates of the prompts in the side menu, and what the user types
\* into the modal.
FlowTemplates == {<<"h">>, <<"{", "a", "}">>}

\* request.prompt of an insertPrompt message that carries no prompt: the
\* value undefined.  Where a string is wanted it reads "undefined"; its
\* .length throws a TypeError.
Undefined == <<"undefined">>

FlowValues == {<<>>, <<"y">>}

\* Text already in the input before any request.
OldText == <<"o">>

\* The callers of insertPromptText: the edit button (insert only), the send
\* button (insert, then send), the insertPrompt message of the popup.
Modes == {"edit", "send", "message"}

\* ---- the element ------------------------------------------------------
\* kind: what findAIInput returned ("none" for null); value: the value
\* property of a textarea or input; text: textContent (for a textarea the
\* child text, its default value); caret: the collapsed selection.
FormControl(e) == e.kind \in {"textarea", "input"}

\* What the user sees in the element.
Content(e) == IF FormControl(e) THEN e.value ELSE e.text

\* The caret of an element that holds text is before or after that text.
InitialElements ==
  {[kind |-> "none", value |-> <<>>, text |-> <<>>, caret |-> 0]}
  \cup {e \in [kind : {"textarea", "input"}, value : {<<>>, OldText},
                text : {<<>>, OldText}, caret : {0, Len(OldText)}] :
          e.caret <= Len(e.value)}
  \cup {e \in [kind : {"contenteditable", "textbox"}, value : {<<>>},
                text : {<<>>, OldText}, caret : {0, Len(OldText)}] :
          e.caret <= Len(e.text)}

\* setCursorToEnd(element, textLength): selectionStart and selectionEnd of a
\* form control are clamped to the length of its value; a contenteditable
\* element gets the caret after its last node; any other element only focus.
setCursorToEnd(e, textLength) ==
  IF FormControl(e) THEN [e EXCEPT !.caret = Min(textLength, Len(e.value))]
  ELSE IF e.kind = "contenteditable" THEN [e EXCEPT !.caret = Len(e.text)]
  ELSE e

\* textarea.value = v: the caret moves to the end of the new value.
SetValue(e, v) == [e EXCEPT !.value = v, !.caret = Len(v)]

\* textarea.textContent = t (also innerHTML = ''): the selection collapses
\* to the start.
SetTextContent(e, t) == [e EXCEPT !.text = t, !.caret = 0]

\* "Clear current content" of the clipboard branch: a textarea by value, a
\* contenteditable element by textContent, nothing else.
ClearCurrentContent(e) ==
  IF e.kind = "textarea" THEN SetValue(e, <<>>)
  ELSE IF e.kind = "contenteditable" THEN SetTextContent(e, <<>>)
  ELSE e

InsertAtCaret(old, c, new) == SubSeq(old, 1, c) \o new \o Tail_(old, c + 1)

\* document.execCommand('paste') that acts: the clipboard text goes in at
\* the caret of the focused editable element.
PasteInto(e, clip) ==
  IF FormControl(e)
  THEN [e EXCEPT !.value = InsertAtCaret(e.value, e.caret, clip),
                 !.caret = e.caret + Len(clip)]
  ELSE [e EXCEPT !.text = InsertAtCaret(e.text, e.caret, clip),
                 !.caret = e.caret + Len(clip)]

\* The check of the paste, 50 ms later: value or textContent is non-empty.
hasContent(e) ==
  \/ (FormControl(e) /\ Len(e.value) > 0)
  \/ Len(e.text) > 0

\* ---- insertWithDirectMethod -------------------------------------------
\* env.hostInserts: the host page's listener inserts the data of the
\* insertText InputEvent; env.inserted: execCommand('insertText') returns
\* true; env.react: the element carries a React props key with onChange.
Envs == [hostInserts : BOOLEAN, inserted : BOOLEAN, react : BOOLEAN]

\* The result: the element afterwards, the strategy that set success (or
\* "none"), whether method 4 was entered, whether the deferred onChange call
\* was scheduled, the methods run in order ("assign" for methods 1 and 2),
\* and the events of type Event dispatched after the write.
\* The cascade that goes on to execCommand after a direct assignment.
insertWithDirectMethod_GoesOn(e, text, env) ==
  [el |-> setCursorToEnd(IF FormControl(e) THEN SetValue(e, text)
                         ELSE SetTextContent(e, text), Len(text)),
   via |-> IF e.kind \in {"textarea", "contenteditable"} THEN "value" ELSE "execCommand",
   m4 |-> FALSE, react |-> FALSE,
   tried |-> IF e.kind \in {"textarea", "contenteditable"}
             THEN <<"assign", "execCommand">> ELSE <<"execCommand">>,
   events |-> {"input", "change"}]

insertWithDirectMethod(e, text, env) ==
  IF e.kind = "textarea"
  THEN \* method 1: value, cursor, input/change/keydown events
       [el |-> setCursorToEnd(SetValue(e, text), Len(text)),
        via |-> "value", m4 |-> FALSE, react |-> FALSE,
        tried |-> <<"assign">>, events |-> {"input", "change", "keydown"}]
  ELSE IF e.kind = "contenteditable"
  THEN \* method 2: insertText InputEvent, else textContent
       LET cleared == SetTextContent(e, <<>>)
           handled == IF env.hostInserts THEN [cleared EXCEPT !.text = text]
                      ELSE cleared
       IN  IF Len(handled.text) > 0
           THEN [el |-> setCursorToEnd(handled, Len(text)),
                 via |-> "inputEvent", m4 |-> FALSE, react |-> FALSE,
                 tried |-> <<"assign">>, events |-> {}]
           ELSE [el |-> setCursorToEnd(SetTextContent(handled, text), Len(text)),
                 via |-> "textContent", m4 |-> FALSE, react |-> FALSE,
                 tried |-> <<"assign">>, events |-> {"input", "change"}]
  ELSE IF e.kind = "input" /\ env.inserted
  THEN \* method 3: select(), execCommand('insertText') replaces the value
       [el |-> setCursorToEnd(SetValue(e, text), Len(text)),
        via |-> "execCommand", m4 |-> FALSE, react |-> FALSE,
        tried |-> <<"execCommand">>, events |-> {"input", "change"}]
  ELSE \* method 4: value and textContent are set for a textarea or a
       \* contenteditable element only, so nothing is written here
       [el |-> setCursorToEnd(e, Len(text)),
        via |-> IF env.react THEN "react" ELSE "none",
        m4 |-> TRUE, react |-> env.react,
        tried |-> <<"execCommand", "react">>, events |-> {}]

\* insertWithDirectMethod() when textToInsert is undefined: every call
\* setCursorToEnd(textarea, textToInsert.length) throws while its argument is
\* evaluated.  Methods 1 and the textContent fallback of method 2 are not in
\* a try block, so the TypeError leaves the function (threw); methods 3 and
\* 4 catch it, and the function goes on to its timer and resolve().
insertUndefined(e, env) ==
  IF e.kind = "textarea"
  THEN [el |-> SetValue(e, Undefined), via |-> "none", m4 |-> FALSE, react |-> FALSE,
        tried |-> <<"assign">>, events |-> {}, threw |-> TRUE]
  ELSE IF e.kind = "contenteditable"
  THEN \* the InputEvent attempt ends in its catch; textContent = undefined
       \* leaves the element empty
       [el |-> SetTextContent(e, <<>>), via |-> "none", m4 |-> FALSE, react |-> FALSE,
        tried |-> <<"assign">>, events |-> {}, threw |-> TRUE]
  ELSE IF e.kind = "input" /\ env.inserted
  THEN \* success is set before the call that throws
       [el |-> SetValue(e, Undefined), via |-> "execCommand", m4 |-> FALSE,
        react |-> FALSE, tried |-> <<"execCommand">>, events |-> {}, threw |-> FALSE]
  ELSE [el |-> e, via |-> "none", m4 |-> TRUE, react |-> FALSE,
        tried |-> <<"execCommand", "react">>, events |-> {}, threw |-> FALSE]

\* ---- timers -----------------------------------------------------------
\* Delays in milliseconds.
PasteCheckDelay == 50
ReactDelay == 0
CursorDelay == 100
SendDelay == 100
ClickDelay == 50
KeyupDelay == 10

Timer(r, kind, delay) == [r |-> r, kind |-> kind, delay |-> delay]

\* setTimeout: the new timer fires after every pending timer that was set
\* with a delay no longer than its own (that one is due no later), and
\* before or after a pending timer set with a longer delay.
FirstSlot(q, t) ==
  LET S == {i \in 1..Len(q) : q[i].delay <= t.delay}
  IN  IF S = {} THEN 1 ELSE (CHOOSE i \in S : \A j \in S : j <= i) + 1

InsertAt(q, t, p) == SubSeq(q, 1, p - 1) \o <<t>> \o Tail_(q, p)

SetTimeout(q, t) == {InsertAt(q, t, p) : p \in FirstSlot(q, t)..(Len(q) + 1)}

SetTimeouts(q, ts) ==
  IF ts = <<>> THEN {q}
  ELSE IF Len(ts) = 1 THEN SetTimeout(q, ts[1])
  ELSE UNION {SetTimeout(q1, ts[2]) : q1 \in SetTimeout(q, ts[1])}

Fires(r, kind) ==
  /\ timers # <<>>
  /\ Head(timers).r = r
  /\ Head(timers).kind = kind

\* ---- requests ---------------------------------------------------------
Req == 1..NumReq

\* pc: where the request is; ins: the promise of insertPromptText;
\* performed: _performInsertion was called; wrote: the request assigned to
\* or pasted into the element; sends: send actions dispatched (a click of
\* the send button, an Enter key sequence); m4: method 4 was entered;
\* via: the strategy that counted as success; before: the content of the
\* element when the request was made; sent: the promise of sendPrompt;
\* notes: the notifications shown for the request; tried: the strategies run,
\* in order; events: the events dispatched after the write that counted;
\* undef: the text is undefined; runs: calls of insertWithDirectMethod.
IdleRequest ==
  [pc |-> "idle", mode |-> "edit", template |-> <<>>, fields |-> <<>>,
   text |-> <<>>, ins |-> "none", performed |-> FALSE, wrote |-> FALSE,
   cancelled |-> FALSE, sends |-> 0, m4 |-> FALSE, via |-> "none",
   reply |-> "none", notes |-> {}, before |-> <<>>, sent |-> "none",
   tried |-> <<>>, events |-> {}, undef |-> FALSE, runs |-> 0]

NoElement == [kind |-> "none", value |-> <<>>, text |-> <<>>, caret |-> 0]

UiIdle == [pc |-> "off"]

PsIdle == [pc |-> "off"]

FlowOff ==
  /\ ui = UiIdle
  /\ ps = PsIdle
  /\ rq = [r \in Req |-> IdleRequest]
  /\ overlay = {}
  /\ el = NoElement
  /\ clipboard = <<>>
  /\ timers = <<>>

(***************************************************************************)
(* The resolver on its own: one template, scanned, then the modal          *)
(* committed with entered values or cancelled.                             *)
(***************************************************************************)
Segments ==
  << <<"{", "a", "}">>, <<"{", "b", "}">>, <<"{", " ", "}">>, <<"{", "1", "}">>,
     <<"-">>, <<"{">>, <<"a", "}">>, <<"}">>, <<"\n">> >>

RECURSIVE Flatten(_)
Flatten(ss) == IF ss = <<>> THEN <<>> ELSE Segments[Head(ss)] \o Flatten(Tail(ss))

Templates ==
  {Flatten(ss) : ss \in UNION {[1..n -> 1..Len(Segments)] : n \in 0..MaxSegs}}

\* What the user may type into a field of the modal.
EnteredValues == {<<>>, <<"x">>, <<"{", "b", "}">>, <<"$", "&">>}

NoValues == [n \in {} |-> <<>>]

RsIdle ==
  [pc |-> "off", template |-> <<>>, fields |-> <<>>, modal |-> FALSE,
   values |-> NoValues, trace |-> <<>>, text |-> <<>>]

ClIdle == [pc |-> "off"]

LcIdle == [pc |-> "off"]

RsInit ==
  /\ cl = ClIdle
  /\ lc = LcIdle
  /\ FlowOff
  /\ \E t \in Templates :
    rs = [pc |-> "start", template |-> t, fields |-> <<>>, modal |-> FALSE,
          values |-> NoValues, trace |-> <<>>, text |-> <<>>]

\* insertPromptText up to the modal or, without variables, up to the call of
\* _performInsertion(textToInsert).
RsScan ==
  /\ rs.pc = "start"
  /\ LET found == ScanVariables(rs.template)
     IN  rs' = IF found = <<>>
               THEN [rs EXCEPT !.pc = "perform", !.text = rs.template]
               ELSE [rs EXCEPT !.pc = "modal", !.fields = found, !.modal = TRUE]
  /\ UNCHANGED notRs

\* submitBtn.onclick, then the replacement loop and _performInsertion.
RsSubmit ==
  /\ rs.pc = "modal"
  /\ \E values \in [SeqToSet(rs.fields) -> EnteredValues] :
       rs' = [rs EXCEPT !.pc = "perform", !.values = values,
                        !.trace = ReplaceTrace(rs.template, rs.fields, values),
                        !.text = ReplaceVariables(rs.template, rs.fields, values)]
  /\ UNCHANGED notRs

\* cancelBtn.onclick or a click on the overlay: reject('User cancelled').
RsCancel ==
  /\ rs.pc = "modal"
  /\ rs' = [rs EXCEPT !.pc = "cancelled"]
  /\ UNCHANGED notRs

RsNext == RsScan \/ RsSubmit \/ RsCancel

SpecResolve == RsInit /\ [][RsNext]_vars

(***************************************************************************)
(* The page classifier: isSupportedAIPage and the eight is...Page          *)
(* predicates over window.location.                                        *)
(*                                                                         *)
(* A URL is a sequence of chunks, each chunk a run of characters; the      *)
(* chunks are cut so that every pattern of the classifier is a run of      *)
(* whole chunks ("netflix.com" is "netfli" followed by "x.com").           *)
(***************************************************************************)
HostChunks ==
  {"chat.", "openai.com", "chatgpt.com", "claude.ai", "gemini.google.com",
   "grok.com", "x.com", "perplexity.ai", "deepseek.com", "doubao.com",
   "qwen.ai", "qianwen.aliyun.com", "netfli", "example.org"}

Hosts == UNION {[1..n -> HostChunks] : n \in 1..MaxHostChunks}

Paths == {<<"/">>, <<"/i/grok">>, <<"/", "c">>}

\* The query and fragment after the path.
Rests == {<<>>, <<"?u=", "/i/grok">>, <<"?u=", "claude.ai">>}

\* window.location.href
Href(loc) == <<"https://">> \o loc.host \o loc.path \o loc.rest

\* window.location.pathname
Pathname(loc) == loc.path

isChatGPTPage(loc) ==
  \/ Includes(Href(loc), <<"chat.", "openai.com">>)
  \/ Includes(Href(loc), <<"chatgpt.com">>)

isClaudePage(loc) == Includes(Href(loc), <<"claude.ai">>)

isGeminiPage(loc) == Includes(Href(loc), <<"gemini.google.com">>)

isGrokPage(loc) ==
  \/ Includes(Href(loc), <<"grok.com">>)
  \/ (Includes(Href(loc), <<"x.com">>) /\ Includes(Pathname(loc), <<"/i/grok">>))

isPerplexityPage(loc) == Includes(Href(loc), <<"perplexity.ai">>)

isDeepSeekPage(loc) == Includes(Href(loc), <<"chat.", "deepseek.com">>)

isDoubaoPage(loc) == Includes(Href(loc), <<"doubao.com">>)

isQwenPage(loc) ==
  \/ Includes(Href(loc), <<"chat.", "qwen.ai">>)
  \/ Includes(Href(loc), <<"qianwen.aliyun.com">>)

\* The chain without its last predicate.
isSupportedAIPage_NoQwen(loc) ==
  \/ isChatGPTPage(loc) \/ isClaudePage(loc) \/ isGeminiPage(loc) \/ isGrokPage(loc)
  \/ isPerplexityPage(loc) \/ isDeepSeekPage(loc) \/ isDoubaoPage(loc)

isSupportedAIPage(loc) ==
  \/ isChatGPTPage(loc) \/ isClaudePage(loc) \/ isGeminiPage(loc) \/ isGrokPage(loc)
  \/ isPerplexityPage(loc) \/ isDeepSeekPage(loc) \/ isDoubaoPage(loc)
  \/ isQwenPage(loc)

Identities ==
  {"chatgpt", "claude", "gemini", "grok", "perplexity", "deepseek", "doubao", "qwen"}

\* The answers of the eight predicates for one location.
Predicates(loc) ==
  [chatgpt |-> isChatGPTPage(loc), claude |-> isClaudePage(loc),
   gemini |-> isGeminiPage(loc), grok |-> isGrokPage(loc),
   perplexity |-> isPerplexityPage(loc), deepseek |-> isDeepSeekPage(loc),
   doubao |-> isDoubaoPage(loc), qwen |-> isQwenPage(loc)]

\* The popup's classifier (popup.js): the same tests on tab.url, but its
\* Grok rule looks for "/i/grok" anywhere in the URL.
PopupIsGrokPage(loc) ==
  \/ Includes(Href(loc), <<"grok.com">>)
  \/ (Includes(Href(loc), <<"x.com">>) /\ Includes(Href(loc), <<"/i/grok">>))

PopupIsSupportedAIPage(loc) ==
  \/ isChatGPTPage(loc) \/ isClaudePage(loc) \/ isGeminiPage(loc)
  \/ PopupIsGrokPage(loc)
  \/ isPerplexityPage(loc) \/ isDeepSeekPage(loc) \/ isDoubaoPage(loc)
  \/ isQwenPage(loc)

\* The answers of the popup's eight predicates for the URL of the tab: seven
\* make the tests of the content script's on the same string, tab.url being
\* the page's href.
PopupPredicates(loc) ==
  [chatgpt |-> isChatGPTPage(loc), claude |-> isClaudePage(loc),
   gemini |-> isGeminiPage(loc), grok |-> PopupIsGrokPage(loc),
   perplexity |-> isPerplexityPage(loc), deepseek |-> isDeepSeekPage(loc),
   doubao |-> isDoubaoPage(loc), qwen |-> isQwenPage(loc)]

ClInit ==
  /\ rs = RsIdle
  /\ lc = LcIdle
  /\ FlowOff
  /\ \E h \in Hosts, p \in Paths, q \in Rests :
       cl = [pc |-> "loaded", loc |-> [host |-> h, path |-> p, rest |-> q]]

\* The content script asks for the page's identity.
ClClassify ==
  /\ cl.pc = "loaded"
  /\ cl' = [pc |-> "classified", loc |-> cl.loc, is |-> Predicates(cl.loc),
            supported |-> isSupportedAIPage(cl.loc),
            popup |-> PopupPredicates(cl.loc)]
  /\ UNCHANGED notCl

\* Client-side routing: the path and the query change, the host stays; the
\* identity is computed again on the next request.
ClNavigate ==
  /\ cl.pc = "classified"
  /\ \E p \in Paths, q \in Rests :
       /\ <<p, q>> # <<cl.loc.path, cl.loc.rest>>
       /\ cl' = [pc |-> "loaded", loc |-> [cl.loc EXCEPT !.path = p, !.rest = q]]
  /\ UNCHANGED notCl

ClNext == ClClassify \/ ClNavigate

SpecClassify == ClInit /\ [][ClNext]_vars

(***************************************************************************)
(* The input locator, findAIInput: the selector list of the page's         *)
(* identity, tried in order; for each selector the matches in document     *)
(* order; the first match with offsetParent !== null is returned.          *)
(*                                                                         *)
(* A selector is the tag it names ("*" for none), whether it asks for      *)
(* contenteditable="true" and for role="textbox", and the other things it  *)
(* asks for (an id, a class, an attribute value, an ancestor), each a      *)
(* token that an element has or has not.  Chinese placeholder texts are    *)
(* written zh:... in the tokens.                                           *)
(***************************************************************************)
Sel(tag, ce, role, more) == [tag |-> tag, ce |-> ce, role |-> role, more |-> more]

ChatGPTSelectors ==
  << Sel("*", FALSE, FALSE, {"#prompt-textarea"}),
     Sel("textarea", FALSE, FALSE, {"data-id=root"}),
     Sel("textarea", FALSE, FALSE, {"placeholder*=Send"}),
     Sel("textarea", FALSE, FALSE, {"placeholder*=Message"}),
     Sel("textarea", FALSE, FALSE, {"placeholder*=zh:send"}),
     Sel("textarea", FALSE, FALSE, {"placeholder*=zh:message"}),
     Sel("textarea", FALSE, FALSE, {"in main"}),
     Sel("textarea", FALSE, FALSE, {"in form"}),
     Sel("*", TRUE, FALSE, {"data-testid*=composer"}),
     Sel("div", TRUE, TRUE, {}),
     Sel("*", FALSE, TRUE, {}),
     Sel("textarea", FALSE, FALSE, {}),
     Sel("div", TRUE, FALSE, {}) >>

ClaudeSelectors ==
  << Sel("div", TRUE, FALSE, {"enterkeyhint=enter"}),
     Sel("div", TRUE, FALSE, {".ProseMirror"}),
     Sel("div", TRUE, FALSE, {}),
     Sel("div", TRUE, FALSE, {"in fieldset"}),
     Sel("*", FALSE, TRUE, {}),
     Sel("textarea", FALSE, FALSE, {}) >>

GeminiSelectors ==
  << Sel("*", TRUE, FALSE, {"in rich-textarea", ".ql-editor"}),
     Sel("div", TRUE, FALSE, {"in rich-textarea"}),
     Sel("div", TRUE, FALSE, {".ql-editor"}),
     Sel("div", TRUE, TRUE, {}),
     Sel("*", TRUE, TRUE, {}),
     Sel("div", TRUE, FALSE, {}),
     Sel("textarea", FALSE, FALSE, {}) >>

GrokSelectors ==
  << Sel("div", TRUE, FALSE, {".ProseMirror"}),
     Sel("div", TRUE, FALSE, {".tiptap"}),
     Sel("div", TRUE, TRUE, {}),
     Sel("div", TRUE, FALSE, {}),
     Sel("*", FALSE, TRUE, {}),
     Sel("textarea", FALSE, FALSE, {}) >>

PerplexitySelectors ==
  << Sel("div", TRUE, TRUE, {}),
     Sel("div", TRUE, FALSE, {".overflow-auto"}),
     Sel("div", TRUE, FALSE, {}),
     Sel("*", FALSE, TRUE, {}),
     Sel("textarea", FALSE, FALSE, {"placeholder*=Ask"}),
     Sel("textarea", FALSE, FALSE, {"placeholder*=Follow"}),
     Sel("textarea", FALSE, FALSE, {}) >>

DeepSeekSelectors ==
  << Sel("textarea", FALSE, FALSE, {"placeholder*=zh:input"}),
     Sel("textarea", FALSE, FALSE, {".el-textarea__inner"}),
     Sel("div", TRUE, FALSE, {}),
     Sel("*", FALSE, TRUE, {}),
     Sel("textarea", FALSE, FALSE, {}),
     Sel("input", FALSE, FALSE, {"type=text"}) >>

DoubaoSelectors ==
  << Sel("textarea", FALSE, FALSE, {"placeholder*=zh:input"}),
     Sel("textarea", FALSE, FALSE, {"placeholder*=zh:please input"}),
     Sel("div", TRUE, TRUE, {}),
     Sel("div", TRUE, FALSE, {".editor-content"}),
     Sel("*", FALSE, TRUE, {}),
     Sel("textarea", FALSE, FALSE, {}),
     Sel("div", TRUE, FALSE, {}) >>

QwenSelectors ==
  << Sel("textarea", FALSE, FALSE, {"placeholder*=zh:input"}),
     Sel("textarea", FALSE, FALSE, {"placeholder*=zh:ask me"}),
     Sel("div", TRUE, TRUE, {}),
     Sel("textarea", FALSE, FALSE, {".ant-input"}),
     Sel("*", FALSE, TRUE, {}),
     Sel("textarea", FALSE, FALSE, {}),
     Sel("div", TRUE, FALSE, {}) >>

\* let selectors = []; if (isChatGPTPage()) ... else if (isQwenPage()) ...
\* with no final else.
InputSelectors(loc) ==
  IF isChatGPTPage(loc) THEN ChatGPTSelectors
  ELSE IF isClaudePage(loc) THEN ClaudeSelectors
  ELSE IF isGeminiPage(loc) THEN GeminiSelectors
  ELSE IF isGrokPage(loc) THEN GrokSelectors
  ELSE IF isPerplexityPage(loc) THEN PerplexitySelectors
  ELSE IF isDeepSeekPage(loc) THEN DeepSeekSelectors
  ELSE IF isDoubaoPage(loc) THEN DoubaoSelectors
  ELSE IF isQwenPage(loc) THEN QwenSelectors
  ELSE <<>>

\* An element of the page: its tag, contenteditable="true", role="textbox",
\* the tokens it has, whether it is laid out (offsetParent !== null), and
\* the node it is (a re-rendered element is another node).
Matches(e, sel) ==
  /\ sel.tag = "*" \/ e.tag = sel.tag
  /\ sel.ce => e.ce
  /\ sel.role => e.role
  /\ sel.more \subseteq e.more

\* The lookup that takes the first match, laid out or not.
FirstVisibleMatch_AnyMatch(dom, sel) ==
  LET S == {i \in 1..Len(dom) : Matches(dom[i], sel)}
  IN  IF S = {} THEN 0 ELSE CHOOSE i \in S : \A j \in S : i <= j

\* document.querySelectorAll(selector), then the first element of it with
\* offsetParent !== null: its position in the document, 0 for none.
FirstVisibleMatch(dom, sel) ==
  LET S == {i \in 1..Len(dom) : Matches(dom[i], sel) /\ dom[i].visible}
  IN  IF S = {} THEN 0 ELSE CHOOSE i \in S : \A j \in S : i <= j

\* The lookup that returns the first element of the document that any
\* selector of the list matches.
TrySelectors_DocumentOrder(dom, sels) ==
  LET S == {i \in 1..Len(dom) :
              dom[i].visible /\ \E k \in 1..Len(sels) : Matches(dom[i], sels[k])}
  IN  IF S = {} THEN 0 ELSE CHOOSE i \in S : \A j \in S : i <= j

RECURSIVE TrySelectors(_, _)
TrySelectors(dom, sels) ==
  IF sels = <<>> THEN 0
  ELSE LET i == FirstVisibleMatch(dom, Head(sels))
       IN  IF i # 0 THEN i ELSE TrySelectors(dom, Tail(sels))

\* The identity whose selectors findAIInput takes: the first predicate of
\* its chain that holds.
InputIdentity(loc) ==
  IF isChatGPTPage(loc) THEN "chatgpt"
  ELSE IF isClaudePage(loc) THEN "claude"
  ELSE IF isGeminiPage(loc) THEN "gemini"
  ELSE IF isGrokPage(loc) THEN "grok"
  ELSE IF isPerplexityPage(loc) THEN "perplexity"
  ELSE IF isDeepSeekPage(loc) THEN "deepseek"
  ELSE IF isDoubaoPage(loc) THEN "doubao"
  ELSE IF isQwenPage(loc) THEN "qwen"
  ELSE "none"

\* findAIInput(): the position in the document of the element returned, 0
\* for null.
findAIInput(loc, dom) == TrySelectors(dom, InputSelectors(loc))

\* ---- the pages and documents tried ------------------------------------
LcHosts ==
  { <<"chatgpt.com">>, <<"claude.ai">>, <<"gemini.google.com">>, <<"grok.com">>,
    <<"x.com">>, <<"perplexity.ai">>, <<"chat.", "deepseek.com">>,
    <<"doubao.com">>, <<"chat.", "qwen.ai">>, <<"example.org">> }

LcPaths == {<<"/">>, <<"/i/grok">>}

LcRests == {<<>>, <<"?u=", "/i/grok">>}

\* And one URL of ChatGPT whose query names another assistant.
LcLocs ==
  [host : LcHosts, path : LcPaths, rest : LcRests]
    \cup {[host |-> <<"chatgpt.com">>, path |-> <<"/">>, rest |-> <<"?q=", "claude.ai">>]}

\* The kinds of element a document is made of here.
Elem(tag, ce, role, more, visible) ==
  [tag |-> tag, ce |-> ce, role |-> role, more |-> more, visible |-> visible]

Palette ==
  << Elem("textarea", FALSE, FALSE, {}, TRUE),
     Elem("textarea", FALSE, FALSE, {"#prompt-textarea"}, FALSE),
     Elem("div", TRUE, FALSE, {".ProseMirror"}, TRUE),
     Elem("div", FALSE, TRUE, {}, TRUE),
     Elem("div", FALSE, FALSE, {"#prompt-textarea"}, TRUE),
     Elem("input", FALSE, FALSE, {"type=text"}, TRUE),
     Elem("textarea", FALSE, FALSE, {"in form"}, TRUE) >>

\* The documents: up to MaxDom different elements of the palette, in
\* document order.
Shapes ==
  {sh \in UNION {[1..n -> 1..Len(Palette)] : n \in 0..MaxDom} :
     \A i, j \in 1..Len(sh) : i # j => sh[i] # sh[j]}

\* The document of shape sh as rendered the g-th time: each rendering makes
\* new nodes.
Render(sh, g) ==
  [i \in 1..Len(sh) |->
     [tag |-> Palette[sh[i]].tag, ce |-> Palette[sh[i]].ce,
      role |-> Palette[sh[i]].role, more |-> Palette[sh[i]].more,
      visible |-> Palette[sh[i]].visible, node |-> <<sh[i], g>>]]

NoNode == <<0, 0>>

\* A visible text-entry surface: textarea or input, contenteditable, or
\* role textbox.
TextEntry(e) == e.tag \in {"textarea", "input"} \/ e.ce \/ e.role

\* ---- the send controls ------------------------------------------------
\* sendPrompt's selector lists.  A descendant combinator is the token
\* "in <ancestor>", a substring test on an attribute the token "attr*=...".
ChatGPTSendSelectors ==
  << Sel("button", FALSE, FALSE, {"data-testid=send-button"}),
     Sel("button", FALSE, FALSE, {"aria-label=Send prompt"}),
     Sel("button", FALSE, FALSE, {"aria-label=zh:send prompt"}),
     Sel("button", FALSE, FALSE, {"in form", "type=submit"}),
     Sel("button", FALSE, FALSE, {".absolute", ".p-1", ".rounded-md"}) >>

GeminiSendSelectors ==
  << Sel("button", FALSE, FALSE, {"aria-label=Send message"}),
     Sel("button", FALSE, FALSE, {"aria-label=zh:send message"}),
     Sel("button", FALSE, FALSE, {".send-button"}),
     Sel("button", FALSE, FALSE, {"mattooltip*=Send"}),
     Sel("button", FALSE, FALSE, {"mattooltip*=zh:send"}),
     Sel("button", FALSE, FALSE, {"in .input-area-container", "aria-label*=send i"}),
     Sel("button", FALSE, FALSE, {"jsname", "data-idom-class*=send"}) >>

GrokSendSelectors ==
  << Sel("button", FALSE, FALSE, {"aria-label=Send"}),
     Sel("button", FALSE, FALSE, {"aria-label=zh:send"}),
     Sel("button", FALSE, FALSE, {"data-testid=send-button"}),
     Sel("button", FALSE, FALSE, {"in form", "type=submit"}) >>

PerplexitySendSelectors ==
  << Sel("button", FALSE, FALSE, {"aria-label=Submit"}),
     Sel("button", FALSE, FALSE, {"aria-label=zh:submit"}),
     Sel("button", FALSE, FALSE, {".bg-super"}),
     Sel("button", FALSE, FALSE, {"type=submit"}) >>

DeepSeekSendSelectors ==
  << Sel("button", FALSE, FALSE, {"aria-label=zh:send"}),
     Sel("button", FALSE, FALSE, {"aria-label=Send"}),
     Sel("div", FALSE, FALSE, {"role=button", "aria-label*=zh:send"}),
     Sel("button", FALSE, FALSE, {".el-button--primary"}),
     Sel("button", FALSE, FALSE, {"in form", "type=submit"}) >>

QwenSendSelectors ==
  << Sel("button", FALSE, FALSE, {"aria-label=zh:send"}),
     Sel("button", FALSE, FALSE, {"aria-label=Send"}),
     Sel("button", FALSE, FALSE, {".ant-btn-primary"}),
     Sel("button", FALSE, FALSE, {"type=submit"}) >>

GenericSendSelectors ==
  << Sel("button", FALSE, FALSE, {"type=submit"}),
     Sel("button", FALSE, FALSE, {"aria-label*=send i"}),
     Sel("button", FALSE, FALSE, {"aria-label*=zh:send"}),
     Sel("button", FALSE, FALSE, {"in form", ":last-of-type"}) >>

SendButtonSelectors(loc) ==
  IF isChatGPTPage(loc) THEN ChatGPTSendSelectors
  ELSE IF isGeminiPage(loc) THEN GeminiSendSelectors
  ELSE IF isGrokPage(loc) THEN GrokSendSelectors
  ELSE IF isPerplexityPage(loc) THEN PerplexitySendSelectors
  ELSE IF isDeepSeekPage(loc) THEN DeepSeekSendSelectors
  ELSE IF isQwenPage(loc) THEN QwenSendSelectors
  ELSE GenericSendSelectors

\* The identity whose send strategy sendPrompt takes: Claude and Doubao are
\* asked first, then the chain of the selector lists.
SendIdentity(loc) ==
  IF isClaudePage(loc) THEN "claude"
  ELSE IF isDoubaoPage(loc) THEN "doubao"
  ELSE IF isChatGPTPage(loc) THEN "chatgpt"
  ELSE IF isGeminiPage(loc) THEN "gemini"
  ELSE IF isGrokPage(loc) THEN "grok"
  ELSE IF isPerplexityPage(loc) THEN "perplexity"
  ELSE IF isDeepSeekPage(loc) THEN "deepseek"
  ELSE IF isQwenPage(loc) THEN "qwen"
  ELSE "generic"

\* document.querySelector(selector): the first match in document order, laid
\* out or not; 0 for null.
querySelector(btns, sel) ==
  LET S == {i \in 1..Len(btns) : Matches(btns[i], sel)}
  IN  IF S = {} THEN 0 ELSE CHOOSE i \in S : \A j \in S : i <= j

\* The loop over the selectors: the first selector whose first match is laid
\* out gives the button.
RECURSIVE FindSendButton(_, _)
FindSendButton(btns, sels) ==
  IF sels = <<>> THEN 0
  ELSE LET b == querySelector(btns, Head(sels))
       IN  IF b # 0 /\ btns[b].visible THEN b ELSE FindSendButton(btns, Tail(sels))

\* The test that leaves Doubao to the search for a button.
useKeyboardFirst_ClaudeOnly(loc) == isClaudePage(loc)

useKeyboardFirst(loc) == isClaudePage(loc) \/ isDoubaoPage(loc)

\* What sendPrompt does once the input is found: whether it searched for a
\* button, and the button it is going to click (0: the Enter key sequence).
SendWay(loc, btns) ==
  IF useKeyboardFirst(loc) THEN [searched |-> FALSE, button |-> 0]
  ELSE LET b == FindSendButton(btns, SendButtonSelectors(loc))
       IN  [searched |-> TRUE,
            button |-> IF b # 0 /\ ~btns[b].disabled THEN b ELSE 0]

\* The controls of the documents tried.
Btn(more, visible, disabled) ==
  [tag |-> "button", ce |-> FALSE, role |-> FALSE, more |-> more,
   visible |-> visible, disabled |-> disabled]

BtnPalette ==
  << Btn({"data-testid=send-button"}, TRUE, TRUE),
     Btn({"in form", "type=submit", ":last-of-type"}, TRUE, FALSE),
     Btn({"aria-label=Send", "aria-label*=send i"}, FALSE, FALSE),
     Btn({"aria-label=Send", "aria-label*=send i"}, TRUE, FALSE) >>

\* The documents tried, by the controls they hold in document order: none,
\* an enabled submit button, a disabled send button before it, a hidden Send
\* button before a visible one.
ButtonShapes == {<<>>, <<2>>, <<1, 2>>, <<3, 4>>}

ButtonDocs == {[i \in 1..Len(sh) |-> BtnPalette[sh[i]]] : sh \in ButtonShapes}

(***************************************************************************)
(* The locator in use: one injection request on a page whose URL and       *)
(* document change under it.  The insertion is taken as one step on the    *)
(* element _performInsertion looked up; the send is the lookup of          *)
(* sendPrompt.                                                             *)
(*   button: the trigger button and side menu were injected (on load, on   *)
(*   a supported page);  source: who asked;  vars: the template has        *)
(*   variables;  modal: the variable modal was shown;  lookups: calls of   *)
(*   findAIInput;  target: the node _performInsertion wrote;  sentTo: the  *)
(*   node sendPrompt focused and sent keys to or submitted;  copied:       *)
(*   navigator.clipboard.writeText was called;  mutated: the nodes         *)
(*   written;  notes: the notifications shown;  ins, sent: the promises    *)
(*   of insertPromptText and sendPrompt;  btns: the controls of the        *)
(*   document when sendPrompt ran;  searched: sendPrompt went through its  *)
(*   button selectors;  found: the button it is going to click;  clicked:  *)
(*   the button clicked;  keys: the Enter key sequence was dispatched;     *)
(*   inputAs, sendAs: the identity whose input selectors findAIInput took, *)
(*   the identity whose send strategy sendPrompt took.                     *)
(***************************************************************************)
LcInit ==
  /\ rs = RsIdle
  /\ cl = ClIdle
  /\ FlowOff
  /\ \E loc \in LcLocs, sh \in Shapes :
       lc = [pc |-> "page", loc |-> loc, dom |-> Render(sh, 0), renders |-> 0,
             button |-> isSupportedAIPage(loc),
             source |-> "none", send |-> FALSE, vars |-> FALSE, modal |-> FALSE,
             lookups |-> 0, target |-> NoNode, sentTo |-> NoNode, copied |-> FALSE,
             mutated |-> {}, notes |-> {}, ins |-> "none", sent |-> "none",
             btns |-> <<>>, searched |-> FALSE, found |-> 0, clicked |-> 0,
             keys |-> FALSE, inputAs |-> "none", sendAs |-> "none"]

\* Client-side routing: path and query change, the content script and what
\* it injected stay.
LcNavigate ==
  /\ lc.pc = "page"
  /\ \E p \in LcPaths, q \in LcRests :
       /\ <<p, q>> # <<lc.loc.path, lc.loc.rest>>
       /\ lc' = [lc EXCEPT !.loc = [lc.loc EXCEPT !.path = p, !.rest = q]]
  /\ UNCHANGED notLc

\* The host page renders its input again (new nodes) or takes it away.
LcRender ==
  /\ lc.pc \in {"modal", "inserted"}
  /\ lc.renders < MaxRenders
  /\ \E gone \in BOOLEAN :
       lc' = [lc EXCEPT
                !.renders = @ + 1,
                !.dom = IF gone THEN <<>>
                        ELSE [i \in 1..Len(lc.dom) |->
                                [lc.dom[i] EXCEPT !.node = <<lc.dom[i].node[1], lc.renders + 1>>]]]
  /\ UNCHANGED notLc

\* _performInsertion on request record q: findChatGPTInput(); null rejects
\* after the notification; otherwise the element found is the one every
\* strategy writes, the clipboard is written when there is an API, and the
\* promise resolves.  The send button's chain goes on to sendPrompt.
LcInsert(q) ==
  LET i == findAIInput(q.loc, q.dom)
      looked == [q EXCEPT !.lookups = @ + 1, !.inputAs = InputIdentity(q.loc)]
  IN  IF i = 0
      THEN lc' = [looked EXCEPT !.pc = "done", !.ins = "rejected",
                                !.notes = @ \cup {"input not found"}]
      ELSE \E api \in BOOLEAN :
             lc' = [looked EXCEPT !.pc = IF q.send THEN "inserted" ELSE "done",
                                  !.ins = "resolved",
                                  !.target = q.dom[i].node,
                                  !.mutated = @ \cup {q.dom[i].node},
                                  !.copied = api]

\* A request: a button of the side menu (insert, or insert and send), or the
\* insertPrompt message the popup sends after its own check of tab.url.
\* insertPromptText shows the modal when the template has variables.
LcRequest ==
  /\ lc.pc = "page"
  /\ \E source \in {"menu", "message"}, send \in BOOLEAN, hasVars \in BOOLEAN :
       /\ source = "menu" => lc.button
       /\ source = "message" => (~send /\ PopupIsSupportedAIPage(lc.loc))
       /\ LET q == [lc EXCEPT !.source = source, !.send = send, !.vars = hasVars,
                              !.ins = "pending"]
          IN  IF hasVars
              THEN lc' = [q EXCEPT !.pc = "modal", !.modal = TRUE]
              ELSE LcInsert(q)
  /\ UNCHANGED notLc

LcModalSubmit ==
  /\ lc.pc = "modal"
  /\ LcInsert(lc)
  /\ UNCHANGED notLc

\* Cancel: insertPromptText returns; the send button's chain goes on.
LcModalCancel ==
  /\ lc.pc = "modal"
  /\ lc' = [lc EXCEPT !.pc = IF lc.send THEN "inserted" ELSE "done",
                      !.ins = "resolved"]
  /\ UNCHANGED notLc

\* sendPrompt, 100 ms after the insertion: findChatGPTInput() again; null
\* rejects, and the handler's catch shows nothing for this message;
\* otherwise the keyboard-first pages and the pages without a usable button
\* get keydown and keypress of Enter on the element found, the others the
\* 50 ms timer of the click.
LcSendPrompt ==
  /\ lc.pc = "inserted"
  /\ LET i == findAIInput(lc.loc, lc.dom)
     IN  IF i = 0
         THEN lc' = [lc EXCEPT !.pc = "done", !.lookups = @ + 1, !.sent = "rejected"]
         ELSE \E btns \in ButtonDocs :
                LET w == SendWay(lc.loc, btns)
                IN  lc' = [lc EXCEPT !.pc = IF w.button # 0 THEN "clickwait" ELSE "keyup",
                                     !.lookups = @ + 1,
                                     !.sent = "pending",
                                     !.sentTo = lc.dom[i].node,
                                     !.btns = btns,
                                     !.searched = w.searched,
                                     !.found = w.button,
                                     !.keys = (w.button = 0),
                                     !.sendAs = SendIdentity(lc.loc)]
  /\ UNCHANGED notLc

\* 50 ms later: sendButton.click(), resolve().
LcClickSend ==
  /\ lc.pc = "clickwait"
  /\ lc' = [lc EXCEPT !.pc = "done", !.clicked = lc.found, !.sent = "resolved"]
  /\ UNCHANGED notLc

\* 10 ms later: keyup of Enter, the input event, resolve().
LcKeyup ==
  /\ lc.pc = "keyup"
  /\ lc' = [lc EXCEPT !.pc = "done", !.sent = "resolved"]
  /\ UNCHANGED notLc

LcNext ==
  \/ LcNavigate
  \/ LcRender
  \/ LcRequest
  \/ LcModalSubmit
  \/ LcModalCancel
  \/ LcSendPrompt
  \/ LcClickSend
  \/ LcKeyup

SpecLocate == LcInit /\ [][LcNext]_vars

(***************************************************************************)
(* The actions of the injection flow.                                      *)
(***************************************************************************)
FlowInit ==
  /\ ui = UiIdle
  /\ ps = PsIdle
  /\ rs = RsIdle
  /\ cl = ClIdle
  /\ lc = LcIdle
  /\ rq = [r \in Req |-> IdleRequest]
  /\ overlay = {}
  /\ el \in InitialElements
  /\ clipboard = <<>>
  /\ timers = <<>>

\* The handler's promise chain on insertPromptText(prompt.content): what it
\* does once the promise is in state st.
\* The chain that starts the send without waiting for the insertion.
HandlerStep_NoWait(mode, st) ==
  IF mode = "send" /\ st # "rejected" THEN "delay"
  ELSE IF st = "pending" THEN "wait"
  ELSE IF st = "rejected" THEN "catch"
  ELSE "then"

HandlerStep(mode, st) ==
  IF st = "pending" THEN "wait"
  ELSE IF st = "rejected" THEN "catch"
  ELSE IF mode = "send" THEN "delay"   \* .then(() => new Promise(... 100))
  ELSE "then"                          \* closeSideMenu / sendResponse

\* The request record after the handler's reaction: the send button goes on
\* to its 100 ms delay; the edit button and the message handler are done
\* (the message handler answers success or failure).
Reacted(q, st) ==
  LET step == HandlerStep(q.mode, st)
  IN  [q EXCEPT !.ins = st,
                !.pc = IF step = "wait" THEN q.pc
                       ELSE IF step = "delay" THEN "senddelay"
                       ELSE "done",
                !.reply = IF q.mode # "message" \/ step = "wait" THEN q.reply
                          ELSE IF step = "then" THEN "success" ELSE "failure"]

\* The send button's chain after the insertion: the 100 ms timer.
\* The chain that goes on to sendPrompt in the next task.
SendTimer_NoDelay(r) == Timer(r, "sendDelay", 0)

SendTimer(r) == Timer(r, "sendDelay", SendDelay)

\* insertPromptText's promise reaches state st for request r, whose record
\* is q by then; tq are the timers set so far in this task.
Settle(r, q, st, tq) ==
  /\ rq' = [rq EXCEPT ![r] = Reacted(q, st)]
  /\ timers' \in IF HandlerStep(q.mode, st) = "delay"
                 THEN SetTimeout(tq, SendTimer(r))
                 ELSE {tq}

\* Where an exception that leaves insertWithDirectMethod() goes, by the
\* place of the call: in the executor (no clipboard API) the catch of
\* _performInsertion rejects, there being no clipboard to copy to; in the
\* catch around execCommand('paste') the chain's .catch calls
\* insertWithDirectMethod() again; in the .catch itself and in the timer of
\* the paste check nothing catches it and the promise stays pending.
OnThrow(ctx) ==
  IF ctx = "executor" THEN "reject"
  ELSE IF ctx = "pasteCatch" THEN "again"
  ELSE "lost"

\* insertWithDirectMethod() called for request r on element e from the
\* place ctx: the cascade, the 100 ms cursor timer, resolve().
DirectInsertion(r, q, e, tq, ctx) ==
  \E env \in Envs :
    LET d == IF q.undef
             THEN insertUndefined(e, env)
             ELSE insertWithDirectMethod(e, q.text, env) @@ [threw |-> FALSE]
        ts == (IF d.react THEN <<Timer(r, "react", ReactDelay)>> ELSE <<>>)
                \o <<Timer(r, "cursor", CursorDelay)>>
        q1 == [q EXCEPT !.wrote = q.wrote \/ d.via \in {"value", "inputEvent",
                                                  "textContent", "execCommand"}
                                          \/ e.kind = "contenteditable"
                                          \/ (d.threw /\ e.kind = "textarea"),
                        !.m4 = d.m4, !.via = d.via,
                        !.tried = q.tried \o d.tried, !.events = d.events,
                        !.runs = q.runs + 1]
    IN  /\ el' = d.el
        /\ IF ~d.threw
           THEN \E tq2 \in SetTimeouts(tq, ts) : Settle(r, q1, "resolved", tq2)
           ELSE LET way == OnThrow(ctx)
                IN  IF way = "reject" THEN Settle(r, q1, "rejected", tq)
                    ELSE \* a second call throws at the same place
                         Settle(r, [q1 EXCEPT !.pc = "lost",
                                              !.tried = IF way = "again" THEN @ \o d.tried ELSE @,
                                              !.runs = IF way = "again" THEN @ + 1 ELSE @],
                                "pending", tq)

\* _performInsertion(text) up to its first wait: no input found rejects
\* after a notification; with a clipboard API the write is awaited; without
\* one the direct method runs at once.
PerformInsertion(r, q0, text) ==
  LET q == [q0 EXCEPT !.text = text, !.performed = TRUE]
  IN  IF el.kind = "none"
      THEN /\ Settle(r, [q EXCEPT !.notes = q.notes \cup {"input not found"}],
                     "rejected", timers)
           /\ UNCHANGED <<el, clipboard>>
      ELSE \E hasClipboard \in BOOLEAN :
             IF hasClipboard
             THEN /\ Settle(r, [q EXCEPT !.pc = "clipwrite", !.tried = <<"paste">>],
                            "pending", timers)
                  /\ UNCHANGED <<el, clipboard>>
             ELSE /\ DirectInsertion(r, q, el, timers, "executor")
                  /\ UNCHANGED clipboard

\* showVariableInputModal, "ensure old modal is removed": querySelector gives
\* the first attached overlay (the one appended first), and it is removed.
\* The modal that leaves an old overlay attached.
RemoveOldOverlay_Keep(attached) == attached

RemoveOldOverlay(attached) ==
  IF attached = {} THEN {}
  ELSE attached \ {CHOOSE o \in attached : \A p \in attached : o <= p}

\* A click on the edit or send button of a prompt, or an insertPrompt
\* message: insertPromptText(text) up to its first wait.  With variables the
\* modal is shown (an overlay that is still attached is removed first).
Request(r) ==
  /\ rq[r].pc = "idle"
  /\ \A o \in Req : o < r => rq[o].pc # "idle"   \* requests are numbered as made
  /\ \E mode \in Modes, t \in FlowTemplates \cup {Undefined} :
       /\ t = Undefined => mode = "message"
       /\ LET q == [rq[r] EXCEPT !.mode = mode, !.template = t, !.before = Content(el),
                                 !.undef = (t = Undefined)]
              found == ScanVariables(t)
          IN  IF found # <<>>
              THEN /\ overlay' = RemoveOldOverlay(overlay) \cup {r}
                   /\ Settle(r, [q EXCEPT !.pc = "modal", !.fields = found], "pending", timers)
                   /\ UNCHANGED <<el, clipboard>>
              ELSE /\ PerformInsertion(r, q, t)
                   /\ UNCHANGED overlay
  /\ UNCHANGED notFlow

\* submitBtn.onclick (or Enter in the last field): cleanup(), resolve(values);
\* insertPromptText replaces the variables and calls _performInsertion.
ModalSubmit(r) ==
  /\ rq[r].pc = "modal"
  /\ r \in overlay
  /\ overlay' = overlay \ {r}   \* cleanup()
  /\ \E values \in [SeqToSet(rq[r].fields) -> FlowValues] :
       PerformInsertion(r, rq[r], ReplaceVariables(rq[r].template, rq[r].fields, values))
  /\ UNCHANGED notFlow

\* The catch around the modal in insertPromptText.
\* The catch that logs and goes on to step 2.
OnModalRejected_GoOn(message) == "continue"

OnModalRejected(message) ==
  IF message = "User cancelled" THEN "return" ELSE "throw"

\* cancelBtn.onclick, or a click on the overlay outside the modal: cleanup(),
\* reject(new Error('User cancelled')); insertPromptText returns undefined.
ModalCancel(r) ==
  /\ rq[r].pc = "modal"
  /\ r \in overlay
  /\ overlay' = overlay \ {r}   \* cleanup()
  /\ LET q == [rq[r] EXCEPT !.cancelled = TRUE]
         way == OnModalRejected("User cancelled")
     IN  IF way = "continue"
         THEN PerformInsertion(r, q, q.template)
         ELSE /\ Settle(r, q, IF way = "return" THEN "resolved" ELSE "rejected", timers)
              /\ UNCHANGED <<el, clipboard>>
  /\ UNCHANGED notFlow

\* navigator.clipboard.writeText(textToInsert) settles.  Fulfilled: the
\* content is cleared, the element focused, execCommand('paste') called (it
\* pastes, does nothing, or throws) and the check set 50 ms later.
\* Rejected, or paste threw: insertWithDirectMethod().
ClipboardSettles(r) ==
  /\ rq[r].pc = "clipwrite"
  /\ \E outcome \in {"rejected", "pasted", "nothing", "threw"} :
       IF outcome = "rejected"
       THEN /\ DirectInsertion(r, rq[r], el, timers, "catch")
            /\ UNCHANGED clipboard
       ELSE LET cleared == ClearCurrentContent(el)
                q == [rq[r] EXCEPT !.wrote = rq[r].wrote
                                      \/ el.kind \in {"textarea", "contenteditable"}
                                      \/ (outcome = "pasted" /\ el.kind # "textbox")]
            IN  /\ clipboard' = rq[r].text
                /\ IF outcome = "threw"
                   THEN DirectInsertion(r, q, cleared, timers, "pasteCatch")
                   ELSE /\ el' = IF outcome = "pasted" /\ el.kind # "textbox"
                                 THEN PasteInto(cleared, rq[r].text)
                                 ELSE cleared
                        /\ \E tq \in SetTimeout(timers, Timer(r, "pasteCheck", PasteCheckDelay)) :
                             Settle(r, [q EXCEPT !.pc = "pastecheck"], "pending", tq)
  /\ UNCHANGED <<overlay, notFlow>>

\* The check of the paste: with content, the cursor is set, input and change
\* are dispatched and the promise resolves; without, insertWithDirectMethod().
PasteCheck(r) ==
  /\ Fires(r, "pasteCheck")
  /\ IF hasContent(el) /\ rq[r].undef
     THEN \* textToInsert.length throws in the timer's callback
          /\ el' = el
          /\ Settle(r, [rq[r] EXCEPT !.pc = "lost"], "pending", Tail(timers))
     ELSE IF hasContent(el)
     THEN /\ el' = setCursorToEnd(el, Len(rq[r].text))
          /\ Settle(r, [rq[r] EXCEPT !.via = "paste", !.events = {"input", "change"}],
                    "resolved", Tail(timers))
     ELSE DirectInsertion(r, rq[r], el, Tail(timers), "timer")
  /\ UNCHANGED <<overlay, clipboard, notFlow>>

\* setTimeout(..., 0) of method 4: the React onChange handler is called with
\* a synthetic event, then setCursorToEnd.
ReactOnChange(r) ==
  /\ Fires(r, "react")
  /\ el' = setCursorToEnd(el, Len(rq[r].text))
  /\ timers' = Tail(timers)
  /\ UNCHANGED <<rq, overlay, clipboard, notFlow>>

\* setTimeout(..., 100) at the end of insertWithDirectMethod: setCursorToEnd.
CursorAgain(r) ==
  /\ Fires(r, "cursor")
  /\ el' = IF rq[r].undef THEN el ELSE setCursorToEnd(el, Len(rq[r].text))
  /\ timers' = Tail(timers)
  /\ UNCHANGED <<rq, overlay, clipboard, notFlow>>

\* The catch of the send button's chain: a notification unless the message
\* holds the not-found text; closeSideMenu(); smartCollapseButton().  What
\* it does to the input element: nothing.
\* The catch that takes the text back out of the input.
OnSendFailed_Retract(e) == IF FormControl(e) THEN SetValue(e, <<>>) ELSE SetTextContent(e, <<>>)

OnSendFailed(e) == e

SendFailed(r, message) ==
  /\ rq' = [rq EXCEPT ![r].pc = "done", ![r].sent = "rejected",
                      ![r].notes = IF message = "input not found" THEN @
                                   ELSE @ \cup {"send manually"}]
  /\ el' = OnSendFailed(el)

\* sendViaKeyboard: focus, keydown and keypress of Enter, keyup 10 ms later;
\* an exception on the way rejects.
SendViaKeyboard(r) ==
  \E threw \in BOOLEAN :
    IF threw
    THEN /\ SendFailed(r, "keyboard send failed")
         /\ timers' = Tail(timers)
    ELSE /\ \E tq \in SetTimeout(Tail(timers), Timer(r, "keyup", KeyupDelay)) : timers' = tq
         /\ rq' = [rq EXCEPT ![r].pc = "keyup", ![r].sends = @ + 1]
         /\ UNCHANGED el

\* The 100 ms after the insertion have passed: sendPrompt() looks the input
\* up again.  Not found (there is none, or the page took it away or hid it
\* meanwhile): reject with the not-found message.  Keyboard-first pages and
\* pages without a visible enabled send button: the Enter key sequence.
\* Otherwise the button is clicked 50 ms later.
SendPrompt(r) ==
  /\ Fires(r, "sendDelay")
  /\ \E found \in BOOLEAN :
       /\ el.kind = "none" => ~found
       /\ IF ~found
          THEN /\ SendFailed(r, "input not found")
               /\ timers' = Tail(timers)
          ELSE \E path \in {"keyboardFirst", "button", "noButton"} :
                 IF path = "button"
                 THEN /\ \E tq \in SetTimeout(Tail(timers), Timer(r, "clickSend", ClickDelay)) :
                           timers' = tq
                      /\ rq' = [rq EXCEPT ![r].pc = "clickwait"]
                      /\ UNCHANGED el
                 ELSE SendViaKeyboard(r)
  /\ UNCHANGED <<overlay, clipboard, notFlow>>

\* sendButton.click(); resolve(); the handler closes the side menu.
ClickSend(r) ==
  /\ Fires(r, "clickSend")
  /\ rq' = [rq EXCEPT ![r].pc = "done", ![r].sends = @ + 1, ![r].sent = "resolved"]
  /\ timers' = Tail(timers)
  /\ UNCHANGED <<overlay, el, clipboard, notFlow>>

\* keyup and a trailing input event; resolve(); the handler closes the menu.
Keyup(r) ==
  /\ Fires(r, "keyup")
  /\ rq' = [rq EXCEPT ![r].pc = "done", ![r].sent = "resolved"]
  /\ timers' = Tail(timers)
  /\ UNCHANGED <<overlay, el, clipboard, notFlow>>

Next ==
  \E r \in Req :
    \/ Request(r)
    \/ ModalSubmit(r)
    \/ ModalCancel(r)
    \/ ClipboardSettles(r)
    \/ PasteCheck(r)
    \/ ReactOnChange(r)
    \/ CursorAgain(r)
    \/ SendPrompt(r)
    \/ ClickSend(r)
    \/ Keyup(r)

Spec == FlowInit /\ [][Next]_vars

(***************************************************************************)
(* The trigger button and the side menu, on a supported page.              *)
(*   button: triggerButton is null, or its element is attached to the      *)
(*   document, or detached from it;  check: the debounced callback of the  *)
(*   MutationObserver is pending;  menu: sideMenu is null or its element   *)
(*   is attached;  open: the element has the class 'open';  isMenuOpen:    *)
(*   the flag;  handlers: the transitionend listeners closeSideMenu left   *)
(*   on the element;  moving: a CSS transition of the element is running;  *)
(*   openTimer: the 10 ms timer that adds the class is pending;            *)
(*   outsideTimer: the 100 ms timer that registers handleOutsideClick is   *)
(*   pending;  outside: handleOutsideClick is registered on the document.  *)
(***************************************************************************)
UiInit ==
  /\ rs = RsIdle
  /\ cl = ClIdle
  /\ lc = LcIdle
  /\ ps = PsIdle
  /\ rq = [r \in Req |-> IdleRequest]
  /\ overlay = {}
  /\ el = NoElement
  /\ clipboard = <<>>
  /\ timers = <<>>
  /\ ui = [pc |-> "loading", button |-> "null", check |-> FALSE, menu |-> "null",
           open |-> FALSE, isMenuOpen |-> FALSE, handlers |-> 0, moving |-> FALSE,
           openTimer |-> FALSE, outsideTimer |-> FALSE, outside |-> FALSE]

\* injectTriggerButton(): an existing triggerButton is only shown; otherwise
\* the element is made and appended to document.body.
injectTriggerButton(button) == IF button = "null" THEN "attached" ELSE button

\* The 2 s timer of initialize: injectTriggerButton(), setupSlashCommands().
UiInjectTimer ==
  /\ ui.pc = "loading"
  /\ ui' = [ui EXCEPT !.pc = "page", !.button = injectTriggerButton(ui.button)]
  /\ UNCHANGED notUi

\* The host page changes its document, taking the button out of it or not;
\* the observer's callback is debounced by 1 s.
UiHostMutation ==
  /\ \E removes \in BOOLEAN :
       /\ removes => ui.button = "attached"
       /\ ui' = [ui EXCEPT !.check = TRUE,
                           !.button = IF removes THEN "detached" ELSE @]
  /\ UNCHANGED notUi

\* The debounced callback: on a supported page with no element of the
\* button's class in the document, injectTriggerButton().
UiMutationCheck ==
  /\ ui.check
  /\ ui' = [ui EXCEPT !.check = FALSE,
                      !.button = IF ui.button # "attached"
                                 THEN injectTriggerButton(ui.button) ELSE @]
  /\ UNCHANGED notUi

\* openSideMenu(): an existing sideMenu gets the class and the flag; else
\* the element is made and appended, the class follows 10 ms later.
openSideMenu(u) ==
  IF u.menu # "null"
  THEN [u EXCEPT !.open = TRUE, !.moving = u.moving \/ ~u.open, !.isMenuOpen = TRUE]
  ELSE [u EXCEPT !.menu = "attached", !.open = FALSE, !.openTimer = TRUE,
                 !.isMenuOpen = TRUE, !.handlers = 0, !.outsideTimer = TRUE]

\* closeSideMenu(): the class is removed, the flag reset, the outside-click
\* listener removed, and a new transitionend listener left on the element.
closeSideMenu(u) ==
  IF u.menu = "null" THEN u
  ELSE [u EXCEPT !.open = FALSE, !.moving = u.moving \/ u.open, !.isMenuOpen = FALSE,
                 !.handlers = @ + 1, !.outside = FALSE]

\* The listener closeSideMenu adds: the element is taken out of the document
\* and sideMenu set to null.  isMenuOpen is not looked at.
transitionEndHandler(u) ==
  IF u.handlers > 0 /\ u.menu # "null"
  THEN [u EXCEPT !.menu = "null", !.handlers = 0, !.open = FALSE]
  ELSE u

\* A click on the trigger button: toggleSideMenu().
UiToggle ==
  /\ ui.pc = "page"
  /\ ui.button = "attached"
  /\ ui.handlers < MaxHandlers
  /\ ui' = IF ui.isMenuOpen THEN closeSideMenu(ui) ELSE openSideMenu(ui)
  /\ UNCHANGED notUi

\* The slash key in the empty input: openSideMenu().
UiSlash ==
  /\ ui.pc = "page"
  /\ ~ui.isMenuOpen
  /\ ui' = openSideMenu(ui)
  /\ UNCHANGED notUi

\* A prompt of the menu is used, or its close button: closeSideMenu().
UiClose ==
  /\ ui.menu = "attached"
  /\ ui.handlers < MaxHandlers
  /\ ui' = closeSideMenu(ui)
  /\ UNCHANGED notUi

\* The 100 ms timer of openSideMenu registers handleOutsideClick.
UiOutsideTimer ==
  /\ ui.outsideTimer
  /\ ui' = [ui EXCEPT !.outsideTimer = FALSE, !.outside = TRUE]
  /\ UNCHANGED notUi

\* handleOutsideClick on a click outside menu and button: closeSideMenu()
\* when sideMenu is set.
UiOutsideClick ==
  /\ ui.outside
  /\ ui.pc = "page"
  /\ ui.handlers < MaxHandlers
  /\ ui' = closeSideMenu(ui)
  /\ UNCHANGED notUi

\* The 10 ms timer of openSideMenu: sideMenu.classList.add('open'), a
\* TypeError when sideMenu is null by then.
UiOpenTimer ==
  /\ ui.openTimer
  /\ ui' = IF ui.menu = "null" THEN [ui EXCEPT !.openTimer = FALSE]
           ELSE [ui EXCEPT !.openTimer = FALSE, !.open = TRUE,
                           !.moving = ui.moving \/ ~ui.open]
  /\ UNCHANGED notUi

\* The transition of the element ends: its transitionend listeners run.
UiTransitionEnd ==
  /\ ui.moving
  /\ ui' = transitionEndHandler([ui EXCEPT !.moving = FALSE])
  /\ UNCHANGED notUi

UiNext ==
  \/ UiInjectTimer
  \/ UiHostMutation
  \/ UiMutationCheck
  \/ UiToggle
  \/ UiSlash
  \/ UiClose
  \/ UiOutsideTimer
  \/ UiOutsideClick
  \/ UiOpenTimer
  \/ UiTransitionEnd

SpecUi == UiInit /\ [][UiNext]_vars

(***************************************************************************)
(* The prompt lists: the two storage areas, the popup and one content      *)
(* script.  A prompt is <<id, revision>>; a list is given by its prompts   *)
(* (the order of a list is left out).  An absent key and an empty array    *)
(* read alike in every place of the code that looks at them.               *)
(*   local, sync: 'prompts' in chrome.storage.local / chrome.storage.sync; *)
(*   allPrompts: the popup's list;  availablePrompts: the content          *)
(*   script's;  popup: closed, or the kind of tab it was opened on;        *)
(*   content: a content script is running (in that tab, when the tab is a  *)
(*   supported one);  cw: the write of                                     *)
(*   the default prompts by loadPrompts is on its way;  mig: where         *)
(*   migrateLocalToSync stands;  migData: the prompts it read;  acted: an  *)
(*   operation of the popup was carried out.                               *)
(***************************************************************************)
DEFAULT_PROMPTS == {<<"d", 0>>}

PromptIds == {"p", "q"}

ImportFiles == {{<<"p", 1>>}, {<<"q", 0>>, <<"d", 1>>}}

Ids(list) == {x[1] : x \in list}

Without(list, id) == {x \in list : x[1] # id}

StoreInit ==
  /\ rs = RsIdle
  /\ cl = ClIdle
  /\ lc = LcIdle
  /\ ui = UiIdle
  /\ rq = [r \in Req |-> IdleRequest]
  /\ overlay = {}
  /\ el = NoElement
  /\ clipboard = <<>>
  /\ timers = <<>>
  /\ \E l \in SUBSET {<<"p", 0>>}, sy \in SUBSET {<<"p", 0>>} :
       ps = [pc |-> "run", local |-> l, sync |-> sy, allPrompts |-> {},
             availablePrompts |-> {}, popup |-> "closed", content |-> FALSE,
             cw |-> FALSE, mig |-> "idle", migData |-> {}, acted |-> FALSE]

\* chrome.storage.sync.set({prompts}): the area, and through the onChanged
\* listener the list of a running content script.
SyncSet(s, list) ==
  [s EXCEPT !.sync = list,
            !.availablePrompts = IF s.content THEN list ELSE @]

\* loadPrompts of the content script up to the callback of the get: a
\* non-empty list of the sync area is taken, else the default prompts, whose
\* write to the sync area is started.
ContentLoad(s) ==
  IF s.sync # {}
  THEN [s EXCEPT !.availablePrompts = s.sync]
  ELSE [s EXCEPT !.availablePrompts = DEFAULT_PROMPTS, !.cw = TRUE]

\* savePrompts of the popup: 'refreshPrompts' to a supported tab, then the
\* list is written to the local area.
savePrompts(s) ==
  LET t == [s EXCEPT !.local = s.allPrompts]
  IN  IF s.popup \in {"chatgpt", "ai"} /\ s.content THEN ContentLoad(t) ELSE t

\* The content script starts in a tab: loadPrompts().
PsContentInit ==
  /\ ps.pc = "run"
  /\ ~ps.content
  /\ ps' = ContentLoad([ps EXCEPT !.content = TRUE])
  /\ UNCHANGED notPs

\* The write of the default prompts arrives.
PsDefaultWrite ==
  /\ ps.cw
  /\ ps' = SyncSet([ps EXCEPT !.cw = FALSE], DEFAULT_PROMPTS)
  /\ UNCHANGED notPs

\* The popup is opened on a tab (initCurrentTab, loadPrompts), or closed.
PsPopup ==
  /\ ps.pc = "run"
  /\ \/ /\ ps.popup = "closed"
        /\ \E k \in {"chatgpt", "ai", "other"} :
             ps' = [ps EXCEPT !.popup = k, !.allPrompts = ps.local]
     \/ /\ ps.popup # "closed"
        /\ ps' = [ps EXCEPT !.popup = "closed", !.allPrompts = {}]
  /\ UNCHANGED notPs

\* addPrompt of the popup with a new prompt: on a supported tab the message
\* 'addPrompt' (addPrompt of the content script), and only when sending it
\* fails, or on another tab, the popup's own list and savePrompts().
PsAdd ==
  /\ ps.popup # "closed"
  /\ \E id \in PromptIds :
       /\ id \notin Ids(ps.allPrompts \cup ps.availablePrompts \cup ps.local \cup ps.sync)
       /\ LET p == <<id, 0>>
              s == [ps EXCEPT !.acted = TRUE]
          IN  ps' = IF s.popup \in {"chatgpt", "ai"} /\ s.content
                    THEN SyncSet(s, s.availablePrompts \cup {p})
                    ELSE savePrompts([s EXCEPT !.allPrompts = @ \cup {p}])
  /\ UNCHANGED notPs

\* addPrompt of the popup in edit mode: 'updatePrompt' on a supported tab
\* (updatePrompt of the content script, which throws for an id it has not),
\* else the popup's own list and savePrompts().
PsUpdate ==
  /\ ps.popup # "closed"
  /\ \E id \in Ids(ps.allPrompts) :
       LET p == <<id, 1>>
           s == [ps EXCEPT !.acted = TRUE]
       IN  ps' = IF s.popup \in {"chatgpt", "ai"} /\ s.content
                 THEN IF id \in Ids(s.availablePrompts)
                      THEN SyncSet(s, Without(s.availablePrompts, id) \cup {p})
                      ELSE s
                 ELSE savePrompts([s EXCEPT !.allPrompts = Without(@, id) \cup {p}])
  /\ UNCHANGED notPs

\* deletePrompt of the popup: on a ChatGPT tab 'deletePrompt' (deletePrompt
\* of the content script) and the popup's list in memory only; else the
\* popup's list and savePrompts().
PsDelete ==
  /\ ps.popup # "closed"
  /\ \E id \in Ids(ps.allPrompts) :
       LET s == [ps EXCEPT !.acted = TRUE, !.allPrompts = Without(@, id)]
       IN  ps' = IF s.popup = "chatgpt" /\ s.content
                 THEN IF id \in Ids(s.availablePrompts)
                      THEN SyncSet(s, Without(s.availablePrompts, id))
                      ELSE s
                 ELSE savePrompts(s)
  /\ UNCHANGED notPs

\* importPrompts: the prompts of the file replace those of the same id and
\* the others are added; savePrompts().
PsImport ==
  /\ ps.popup # "closed"
  /\ \E file \in ImportFiles :
       LET merged == {x \in ps.allPrompts : x[1] \notin Ids(file)} \cup file
       IN  ps' = savePrompts([ps EXCEPT !.acted = TRUE, !.allPrompts = merged])
  /\ UNCHANGED notPs

\* migrateLocalToSync up to the write: both areas are read; with prompts in
\* local and none in sync, and the data under 90000 characters, the write to
\* the sync area is started.
PsMigrateRead ==
  /\ ps.pc = "run"
  /\ ps.mig = "idle"
  /\ \E oversize \in BOOLEAN :
       ps' = IF ps.local # {} /\ ps.sync = {} /\ ~oversize
             THEN [ps EXCEPT !.mig = "writing", !.migData = ps.local]
             ELSE [ps EXCEPT !.mig = "done"]
  /\ UNCHANGED notPs

\* The write to the sync area ends: with an error migration stops, else the
\* removal from the local area is started.
PsMigrateWrite ==
  /\ ps.mig = "writing"
  /\ \E ok \in BOOLEAN :
       ps' = IF ok THEN SyncSet([ps EXCEPT !.mig = "removing"], ps.migData)
             ELSE [ps EXCEPT !.mig = "done", !.migData = {}]
  /\ UNCHANGED notPs

\* chrome.storage.local.remove of the migrated keys.
PsMigrateRemove ==
  /\ ps.mig = "removing"
  /\ ps' = [ps EXCEPT !.mig = "done", !.migData = {}, !.local = {}]
  /\ UNCHANGED notPs

\* The extension is updated again: onInstalled runs another migration.
PsInstalled ==
  /\ ps.mig = "done"
  /\ ps' = [ps EXCEPT !.mig = "idle"]
  /\ UNCHANGED notPs

StoreNext ==
  \/ PsContentInit
  \/ PsDefaultWrite
  \/ PsPopup
  \/ PsAdd
  \/ PsUpdate
  \/ PsDelete
  \/ PsImport
  \/ PsMigrateRead
  \/ PsMigrateWrite
  \/ PsMigrateRemove
  \/ PsInstalled

SpecStore == StoreInit /\ [][StoreNext]_vars

(***************************************************************************)
(* What the resolver is to compute, stated without the scan and the        *)
(* replacement loop.                                                       *)
(***************************************************************************)
\* The positions where a placeholder token starts: an opening brace, a
\* non-empty run without brace or newline, a closing brace.
TokenStarts(t) ==
  {i \in 1..Len(t) :
     /\ t[i] = "{"
     /\ \E j \in (i + 2)..Len(t) :
          /\ t[j] = "}"
          /\ \A k \in (i + 1)..(j - 1) : t[k] \notin {"{", "}", "\n"}}

TokenEnd(t, i) == CHOOSE j \in (i + 2)..Len(t) :
                    t[j] = "}" /\ \A k \in (i + 1)..(j - 1) : t[k] # "}"

TokenName(t, i) == SubSeq(t, i + 1, TokenEnd(t, i) - 1)

\* A placeholder is a token whose name has a character that is not white
\* space.
PlaceholderStarts(t) ==
  {i \in TokenStarts(t) : \E k \in 1..Len(TokenName(t, i)) : TokenName(t, i)[k] # " "}

\* The distinct placeholder names in order of first occurrence.
RECURSIVE NamesFrom(_, _, _)
NamesFrom(t, i, acc) ==
  IF i > Len(t) THEN acc
  ELSE NamesFrom(t, i + 1,
                 IF i \in PlaceholderStarts(t) /\ ~InSeq(TokenName(t, i), acc)
                 THEN Append(acc, TokenName(t, i)) ELSE acc)

PlaceholderNames(t) == NamesFrom(t, 1, <<>>)

\* The template with every placeholder occurrence replaced, in one pass, by
\* exactly the value entered for its name.
RECURSIVE SubstFrom(_, _, _)
SubstFrom(t, values, i) ==
  IF i > Len(t) THEN <<>>
  ELSE IF i \in PlaceholderStarts(t) /\ TokenName(t, i) \in DOMAIN values
    THEN values[TokenName(t, i)] \o SubstFrom(t, values, TokenEnd(t, i) + 1)
  ELSE <<t[i]>> \o SubstFrom(t, values, i + 1)

Substituted(t, values) == SubstFrom(t, values, 1)

\* The text with every occurrence of pat, left to right, replaced by the
\* characters of v as they are.
RECURSIVE ReplacedAll(_, _, _)
ReplacedAll(text, pat, v) ==
  IF ~Includes(text, pat) THEN text
  ELSE LET i == CHOOSE k \in 1..Len(text) :
                  OccursAt(text, pat, k) /\ \A j \in 1..(k - 1) : ~OccursAt(text, pat, j)
       IN  SubSeq(text, 1, i - 1) \o v \o ReplacedAll(Tail_(text, i + Len(pat)), pat, v)

\* The text with every occurrence of pat deleted.
Deleted(text, pat) == ReplacedAll(text, pat, <<>>)

\* A value without '$', the character that starts a replacement pattern.
PlainValue(v) == ~InSeq("$", v)

RsCommitted == rs.pc = "perform" /\ rs.modal

(***************************************************************************)
(* Properties of the resolver (specification SpecResolve).                 *)
(***************************************************************************)
\* C5: for a template without any placeholder token the resolution shows no
\* modal and hands the original template, character for character, to the
\* insertion.
C5_NoPlaceholderUnchanged ==
  (rs.pc # "start" /\ TokenStarts(rs.template) = {})
    => (~rs.modal /\ rs.pc = "perform" /\ rs.text = rs.template)

C5_Witness ==
  /\ rs.pc = "perform"
  /\ TokenStarts(rs.template) = {}
  /\ InSeq("{", rs.template) /\ InSeq("}", rs.template)

C7_ExactSubstitution ==
  RsCommitted => rs.text = Substituted(rs.template, rs.values)

C9_ClassifyTotal ==
  cl.pc = "classified" =>
    /\ \A id \in Identities : cl.is[id] \in BOOLEAN
    /\ cl.supported \in BOOLEAN
    /\ cl.supported = (\E id \in Identities : cl.is[id])

\* A page that only the last predicate of the chain matches.
C9_Witness ==
  /\ cl.pc = "classified"
  /\ cl.loc.host = <<"chat.", "qwen.ai">>
  /\ cl.supported
  /\ \A id \in Identities \ {"qwen"} : ~cl.is[id]

(***************************************************************************)
(* Properties of the injection flow (specification Spec).                  *)
(***************************************************************************)
\* The other requests of the page have not been made.
Alone(r) == \A o \in Req \ {r} : rq[o].pc = "idle"

\* Request r took this step.
StepOf(r) == rq'[r] # rq[r]

\* The send of request r has begun: sendPrompt is past its search for the
\* input, or a click or an Enter key sequence has been dispatched.
Sending(r) == rq[r].sends > 0 \/ rq[r].pc \in {"clickwait", "keyup"}

\* C1: when the template has a placeholder and the user cancels the modal,
\* the insertion never runs: from the click that opens the modal on, no step
\* of the request calls _performInsertion or changes the target element,
\* so its value and content stay what they were before the request.
C1_CancelNeverInserts ==
  [][\A r \in Req :
       (StepOf(r) /\ (rq'[r].pc = "modal" \/ rq'[r].cancelled))
         => (el' = el /\ ~rq'[r].performed /\ ~rq'[r].wrote)]_vars

\* A request on an input that holds text, cancelled in the modal and
\* finished.
C1_Witness ==
  \E r \in Req :
    /\ rq[r].cancelled
    /\ rq[r].pc = "done"
    /\ rq[r].fields # <<>>
    /\ Content(el) = OldText
    /\ Alone(r)

\* C2: cancelling the modal aborts the whole injection, also for the send
\* button: no click of the send button and no Enter key sequence is
\* dispatched for a cancelled request.
C2_CancelAbortsSend ==
  \A r \in Req : rq[r].cancelled => ~Sending(r)

\* C3: whatever the interleaving of the requests, a request's send (click or
\* Enter keys, and sendPrompt itself) comes only after its own insertion
\* promise has settled.
C3_SendAfterInsertSettled ==
  \A r \in Req :
    (Sending(r) \/ rq[r].pc = "senddelay") => rq[r].ins \in {"resolved", "rejected"}

\* A send dispatched for a request that wrote the element while the
\* insertion of another request is still pending.
C3_Witness ==
  \E r, o \in Req :
    /\ r # o
    /\ rq[r].sends > 0 /\ rq[r].wrote /\ ~rq[r].cancelled
    /\ rq[o].pc \in {"modal", "clipwrite", "pastecheck"}
    /\ rq[o].ins = "pending"

\* C4: a request that does not send (edit button, message), the only one of
\* the page, on a textarea: once its promise has resolved the value is the
\* resolved text, the caret is at its end, and nothing was sent.
C4_TextareaGetsText ==
  \A r \in Req :
    (/\ Alone(r)
     /\ el.kind = "textarea"
     /\ rq[r].mode # "send"
     /\ rq[r].performed
     /\ rq[r].ins = "resolved")
      => (/\ el.value = rq[r].text
          /\ el.caret = Len(rq[r].text)
          /\ rq[r].sends = 0)

\* C10: for every kind of target, when the insertion of the only request of
\* the page is reported finished and the text is nowhere in the element (no
\* strategy has placed it), the fourth strategy (the React onChange call)
\* has been attempted.
C10_FourthStrategyAttempted ==
  \A r \in Req :
    (/\ Alone(r)
     /\ rq[r].performed
     /\ rq[r].ins = "resolved"
     /\ ~Includes(Content(el), rq[r].text))
      => rq[r].m4

\* The cascade of request r ended with success still false: method 4 was
\* entered and found no React onChange handler.
CascadeUnverified(r) == rq[r].m4 /\ rq[r].via = "none"

\* C11: when every insertion strategy ends without a verified write, the
\* text is on the clipboard and a notification telling the user to paste it
\* by hand has been shown by the time the insertion promise settles.
C11_UnverifiedFallsBack ==
  \A r \in Req :
    (Alone(r) /\ CascadeUnverified(r) /\ rq[r].ins \in {"resolved", "rejected"})
      => (clipboard = rq[r].text /\ "paste manually" \in rq[r].notes)

\* No timer of request r is pending.
TimersFired(r) == \A i \in 1..Len(timers) : timers[i].r # r

\* The caret is right after an occurrence of text in what the element shows.
CaretAfter(e, text) ==
  /\ e.caret >= Len(text)
  /\ SubSeq(Content(e), e.caret - Len(text) + 1, e.caret) = text

\* C12: when the only request of the page has finished with a strategy that
\* reported success, all its timers fired, and the text is in a textarea, an
\* input or a contenteditable element, the caret is at the end of the
\* inserted text.
C12_CaretAtEndOfText ==
  \A r \in Req :
    (/\ Alone(r)
     /\ rq[r].ins = "resolved"
     /\ rq[r].performed
     /\ rq[r].via # "none"
     /\ TimersFired(r)
     /\ el.kind \in {"textarea", "input", "contenteditable"}
     /\ Includes(Content(el), rq[r].text))
      => CaretAfter(el, rq[r].text)

\* Request r is resolving its variables: its modal is the one shown.
Resolving(r) == rq[r].pc = "modal" /\ r \in overlay

\* Request r is in its insertion cascade: _performInsertion has been called
\* and the insertion promise is still pending.
Inserting(r) == rq[r].pc \in {"clipwrite", "pastecheck"}

\* C13: at most one flow is in flight: while a request is resolving or
\* inserting, no other request is in its insertion cascade.
C13_OneFlowInFlight ==
  \A r, o \in Req :
    r # o => ~((Resolving(r) \/ Inserting(r)) /\ Inserting(o))

\* C14: at most one variable-modal overlay is attached to the document;
\* a modal opened while one is open has removed the old overlay.
C14_OneOverlay == Cardinality(overlay) <= 1

\* The modal of a later request is shown while an earlier request still
\* waits for its own modal, whose overlay is gone.
C14_Witness ==
  \E r, o \in Req :
    /\ o < r
    /\ overlay = {r}
    /\ rq[o].pc = "modal"
    /\ rq[r].pc = "modal"

(***************************************************************************)
(* Properties of the locator in use (specification SpecLocate).            *)
(***************************************************************************)
\* C15: within one insert-and-send request the element sendPrompt focuses
\* and sends to is the element that received the text, also when the page
\* rendered its input again in between.
C15_OneTargetPerRequest ==
  (lc.pc = "done" /\ lc.send /\ lc.target # NoNode /\ lc.sent = "resolved")
    => lc.sentTo = lc.target

\* C16: on a page the content script classifies as unknown a request is
\* refused up front: no modal is shown, findAIInput is not called, nothing
\* is written, whether the request came from the side menu or as a message.
C16_UnknownPageRefused ==
  (lc.pc # "off" /\ lc.source # "none" /\ ~isSupportedAIPage(lc.loc))
    => (~lc.modal /\ lc.lookups = 0 /\ lc.mutated = {} /\ ~lc.copied)

\* The insertion of the request has run its lookup on the document as it is
\* now (sendPrompt has not run, the document has not been rendered since).
JustInserted == lc.pc = "done" /\ lc.lookups = 1 /\ lc.sent = "none"

\* C19: on a page of unknown identity the locator falls back to a generic
\* selector list, so a visible textarea or contenteditable element of the
\* document is found and the insertion is not rejected as not found.
C19_GenericFallback ==
  (/\ JustInserted
   /\ ~isSupportedAIPage(lc.loc)
   /\ \E i \in 1..Len(lc.dom) :
        lc.dom[i].visible /\ (lc.dom[i].tag = "textarea" \/ lc.dom[i].ce))
    => (lc.ins = "resolved" /\ lc.target # NoNode)

\* No selector of the page's list has a match that is laid out.
NoVisibleMatch(loc, dom) ==
  \A k \in 1..Len(InputSelectors(loc)), i \in 1..Len(dom) :
    ~(Matches(dom[i], InputSelectors(loc)[k]) /\ dom[i].visible)

\* C20: when no selector yields a visible element the insertion rejects as
\* not found after its notification, and nothing was written: no clipboard
\* write, no element of the page touched.
C20_NotFoundRejects ==
  (JustInserted /\ NoVisibleMatch(lc.loc, lc.dom))
    => (/\ lc.ins = "rejected"
        /\ "input not found" \in lc.notes
        /\ ~lc.copied
        /\ lc.mutated = {}
        /\ lc.target = NoNode)

\* A ChatGPT page whose only match of the list is a textarea that is not
\* laid out, next to a visible element no selector of the list matches.
C20_Witness ==
  /\ JustInserted
  /\ isChatGPTPage(lc.loc)
  /\ Len(lc.dom) = 2
  /\ \E i \in 1..2 : lc.dom[i].tag = "textarea" /\ ~lc.dom[i].visible
  /\ \E i \in 1..2 : lc.dom[i].tag = "input" /\ lc.dom[i].visible
  /\ lc.ins = "rejected"

(***************************************************************************)
(* Properties of the send step (specification Spec).                       *)
(***************************************************************************)
\* C17: a failed send never takes the inserted text back: no step of a
\* request from the start of its sendPrompt on (its rejection and the
\* handler's catch, the keyboard fallback, the click) changes the value or
\* content of the element.
C17_SendKeepsText ==
  [][\A r \in Req :
       (StepOf(r) /\ rq[r].pc \in {"senddelay", "clickwait", "keyup"})
         => Content(el') = Content(el)]_vars

\* The send of the only request was rejected and the element still holds
\* the inserted text.
C17_Witness ==
  \E r \in Req :
    /\ Alone(r)
    /\ rq[r].sent = "rejected"
    /\ rq[r].wrote
    /\ rq[r].text # <<>>
    /\ Content(el) = rq[r].text

\* C18: whenever sendPrompt rejects after the text was inserted, whatever
\* the reason, the user has been shown the notification to send manually.
C18_SendFailureNotified ==
  \A r \in Req :
    (rq[r].sent = "rejected" /\ rq[r].wrote) => "send manually" \in rq[r].notes

\* Position i of the document is a visible match of selector k of the list.
VisibleMatch(loc, dom, k, i) ==
  Matches(dom[i], InputSelectors(loc)[k]) /\ dom[i].visible

\* The position the locator is to return: the first visible match, in
\* document order, of the earliest selector that has a visible match.
EarliestWins(loc, dom, i) ==
  \E k \in 1..Len(InputSelectors(loc)) :
    /\ VisibleMatch(loc, dom, k, i)
    /\ \A j \in 1..(i - 1) : ~VisibleMatch(loc, dom, k, j)
    /\ \A k2 \in 1..(k - 1), j \in 1..Len(dom) : ~VisibleMatch(loc, dom, k2, j)

\* C21: the element the locator returns is the first visible match of the
\* earliest selector of the page's list that has a visible match, and when
\* some selector has a visible match an element is returned.
C21_EarliestSelectorWins ==
  JustInserted =>
    /\ lc.target # NoNode =>
         \E i \in 1..Len(lc.dom) : lc.dom[i].node = lc.target /\ EarliestWins(lc.loc, lc.dom, i)
    /\ lc.target = NoNode => NoVisibleMatch(lc.loc, lc.dom)

\* The second element of the document is returned although the first one is
\* visible and matched by a later selector of the list.
C21_Witness ==
  /\ JustInserted
  /\ Len(lc.dom) = 2
  /\ lc.target = lc.dom[2].node
  /\ lc.dom[1].visible
  /\ \E k \in 1..Len(InputSelectors(lc.loc)) : Matches(lc.dom[1], InputSelectors(lc.loc)[k])

\* C22: the element the locator returns is laid out and is a text-entry
\* surface: a textarea or input, contenteditable, or of role textbox.
C22_ReturnsTextEntry ==
  (JustInserted /\ lc.target # NoNode) =>
    \A i \in 1..Len(lc.dom) :
      lc.dom[i].node = lc.target => (lc.dom[i].visible /\ TextEntry(lc.dom[i]))

\* C23: once the template is scanned, the name of every brace-delimited
\* token (a non-empty run without braces or newline) has a field in the
\* modal, a name made of white space only included.
C23_BlankNamePrompted ==
  rs.pc # "start" =>
    \A i \in TokenStarts(rs.template) : InSeq(TokenName(rs.template, i), rs.fields)

\* The place of a strategy in the order of the cascade.
Rank(strategy) ==
  CASE strategy = "paste" -> 1
    [] strategy = "assign" -> 2
    [] strategy = "execCommand" -> 3
    [] strategy = "react" -> 4

\* The strategy a success is counted for.
StrategyOf(via) ==
  CASE via = "paste" -> "paste"
    [] via \in {"value", "inputEvent", "textContent"} -> "assign"
    [] via = "execCommand" -> "execCommand"
    [] via = "react" -> "react"

\* C24: the strategies a request runs are run in the order clipboard paste,
\* direct assignment, execCommand insertText, React onChange (strategies
\* that do not apply are left out): none runs after a later one, and the
\* strategy that reported success is the last one run.  (Whether a strategy
\* runs twice is the matter of C35.)
C24_FixedOrder ==
  \A r \in Req :
    LET t == rq[r].tried
    IN  /\ \A i, j \in 1..Len(t) : i < j => Rank(t[i]) <= Rank(t[j])
        /\ rq[r].via # "none" => (t # <<>> /\ t[Len(t)] = StrategyOf(rq[r].via))

\* A request whose paste left the element empty, whose execCommand inserted
\* nothing, and that ended with the React onChange call.
C24_Witness ==
  \E r \in Req :
    /\ rq[r].tried = <<"paste", "execCommand", "react">>
    /\ rq[r].via = "react"
    /\ rq[r].ins = "resolved"

\* C25: a direct assignment counts as success only when the element, read
\* again, holds something: once the only request of the page has resolved
\* through an assignment of value or textContent, the element is not empty.
C25_SuccessVerified ==
  \A r \in Req :
    (/\ Alone(r)
     /\ rq[r].ins = "resolved"
     /\ rq[r].via \in {"value", "textContent"})
      => Content(el) # <<>>

\* C26: the only request of the page, made on an element that holds text
\* other than the text to insert, never resolves with the paste counted as
\* success while the element holds exactly what it held before.
C26_PasteClearsTarget ==
  \A r \in Req :
    (/\ Alone(r)
     /\ rq[r].ins = "resolved"
     /\ rq[r].via = "paste"
     /\ rq[r].text # <<>>
     /\ rq[r].before # <<>>
     /\ ~Includes(rq[r].before, rq[r].text))
      => Content(el) # rq[r].before

\* C27: after a write by assignment that counted as success (value,
\* accepted insertText InputEvent, textContent), an input and a change
\* event were dispatched on the element.
C27_EventsAfterAssignment ==
  \A r \in Req :
    rq[r].via \in {"value", "inputEvent", "textContent"}
      => {"input", "change"} \subseteq rq[r].events

\* sendPrompt of request r has been called.
SendStarted(r) == Sending(r) \/ rq[r].sent # "none"

\* C28: once sendPrompt of a request has been called, no timer of its
\* insertion (paste check, React onChange call, 100 ms caret placement) is
\* pending, so none acts on the element afterwards.
C28_InsertionDoneBeforeSend ==
  \A r \in Req :
    SendStarted(r) =>
      \A i \in 1..Len(timers) :
        timers[i].r = r => timers[i].kind \notin {"pasteCheck", "react", "cursor"}

\* The send of a request has started after its cascade had set both the
\* React onChange timer and the caret timer.
C28_Witness ==
  \E r \in Req :
    /\ SendStarted(r)
    /\ rq[r].via = "react"
    /\ rq[r].mode = "send"

\* sendPrompt found the input and went on to send.
LcSendStarted == lc.pc \in {"clickwait", "keyup", "done"} /\ lc.sent \in {"pending", "resolved"}

\* C29: on a Claude or Doubao page sendPrompt does not go through the button
\* selectors and clicks nothing; having found the input it dispatches the
\* Enter key sequence.
C29_KeyboardOnly ==
  (isClaudePage(lc.loc) \/ isDoubaoPage(lc.loc)) =>
    /\ ~lc.searched
    /\ lc.found = 0 /\ lc.clicked = 0
    /\ LcSendStarted => lc.keys

\* The send is done on a Doubao page whose document holds a visible, enabled
\* submit button.
C29_Witness ==
  /\ isDoubaoPage(lc.loc)
  /\ lc.pc = "done" /\ lc.sent = "resolved"
  /\ lc.keys
  /\ \E j \in 1..Len(lc.btns) :
       /\ lc.btns[j].visible /\ ~lc.btns[j].disabled
       /\ "type=submit" \in lc.btns[j].more

\* Control j of the document is a visible, enabled match of a selector of
\* the page's send list.
UsableControl(loc, btns, j) ==
  /\ btns[j].visible /\ ~btns[j].disabled
  /\ \E k \in 1..Len(SendButtonSelectors(loc)) : Matches(btns[j], SendButtonSelectors(loc)[k])

\* C30: on a supported page that is not keyboard-first, when the document
\* holds a visible, enabled match of a selector of the page's send list,
\* sendPrompt clicks such a control rather than sending the Enter keys.
C30_ClicksUsableControl ==
  (/\ lc.pc = "done" /\ lc.sent = "resolved"
   /\ isSupportedAIPage(lc.loc)
   /\ ~(isClaudePage(lc.loc) \/ isDoubaoPage(lc.loc))
   /\ \E j \in 1..Len(lc.btns) : UsableControl(lc.loc, lc.btns, j))
    => (lc.clicked # 0 /\ UsableControl(lc.loc, lc.btns, lc.clicked) /\ ~lc.keys)

\* C31: an insertion that was started and whose promise is pending is still
\* waiting for something: the clipboard write, or the timer of its paste
\* check.  No exception leaves it pending with nothing to come.
C31_AlwaysSettles ==
  \A r \in Req :
    (rq[r].performed /\ rq[r].ins = "pending") =>
      \/ rq[r].pc = "clipwrite"
      \/ \E i \in 1..Len(timers) : timers[i].r = r /\ timers[i].kind = "pasteCheck"

\* C35: insertWithDirectMethod is called at most once for a request.
C35_CascadeRunsOnce == \A r \in Req : rq[r].runs <= 1

\* C32: a request that waits for its placeholders still has its modal
\* attached, so that a submit or a cancel can complete the resolution;
\* a request whose modal was discarded is settled.
C32_ResolutionCompletes ==
  \A r \in Req : rq[r].pc = "modal" => r \in overlay

\* C36: an insertPrompt message is answered with success only when the
\* request wrote the input; not when the modal was cancelled or nothing was
\* placed.
C36_SuccessMeansWritten ==
  \A r \in Req :
    rq[r].reply = "success" => (rq[r].wrote /\ ~rq[r].cancelled)

\* C33: the popup's classifier and the content script's give the same
\* answers for the URL of the page, identity by identity.
C33_ClassifiersAgree ==
  cl.pc = "classified" => cl.popup = cl.is

\* C34: the send strategy sendPrompt takes is that of the identity whose
\* selectors located the input.
C34_OneIdentity ==
  lc.sendAs # "none" => lc.sendAs = lc.inputAs

\* C37: when isMenuOpen is true the side menu element exists and is attached
\* to the document.
C37_OpenMenuAttached ==
  (ui.pc # "off" /\ ui.isMenuOpen) => ui.menu = "attached"

\* C38: a trigger button that the host page took out of the document is put
\* back by the next mutation check: while the button is detached, a check is
\* pending.
C38_ButtonReinjected ==
  (ui.pc # "off" /\ ui.button = "detached") => ui.check

\* C39: after operations of the popup, with no storage write on its way, the
\* list the popup loads (the prompts of the local area) equals the content
\* script's availablePrompts.
C39_SameList ==
  (ps.pc = "run" /\ ps.acted /\ ps.content /\ ~ps.cw /\ ps.mig \in {"idle", "done"})
    => ps.local = ps.availablePrompts

\* C40: the migration loses no prompts: when it removes the prompts from the
\* local area, the sync area holds each of them.
C40_MigrationKeepsPrompts ==
  [][(ps.mig = "removing" /\ ps'.mig = "done") => ps.local \subseteq ps.sync]_vars

====
